---- MODULE Spec2Model ----
(***************************************************************************)
(* A model of typescript-estree: the orchestrator (parser.js), the         *)
(* ast-converter entry point and the Converter / AbstractConverter rules   *)
(* that turn a TypeScript syntax tree into an ESTree.                      *)
(*                                                                         *)
(* Native (TypeScript) nodes are records                                   *)
(*    [kind, text, flags, kids, pos, end]                                  *)
(* where kids holds the child nodes in source order and a native node is   *)
(* identified by its path from the root (a sequence of child indexes).     *)
(* Target (ESTree) nodes are records                                       *)
(*    [id, type, range, attrs, sub]                                        *)
(* where id is the allocation number of the object (object identity),      *)
(* attrs the scalar fields as <<name, value>> pairs and sub the node       *)
(* valued fields as a sequence of <<field, node>> pairs.                   *)
(***************************************************************************)
EXTENDS Integers, Sequences, FiniteSets, TLC

VARIABLES
  isRunningSupportedTypeScriptVersion,  \* parser.js: fixed when loaded
  warnedAboutTSVersion,  \* parser.js: module-level flag
  extra,                 \* parser.js: module-level options bag
  programCache,          \* tsconfig-parser: tsconfig path -> [text, program]
  logCalls,              \* every invocation of a log sink, in order
  calls,                 \* the outcomes of the API calls made so far
  conv,                  \* the run of the Converter made by the last call
  knownWatchProgramMap,  \* lib/tsconfig-parser.js: tsconfig path -> watch
  watchCallbackTrackingMap,   \* lib/tsconfig-parser.js: file -> callback
  currentLintOperationState,  \* lib/tsconfig-parser.js: code and filePath
  fileWatchers,          \* the watchers watchFile returned, not yet closed
  lints,                 \* the outcomes of the calls of the watching resolver
  frames                 \* the parse calls that are inside their extra.log

watchVars == <<knownWatchProgramMap, watchCallbackTrackingMap,
               currentLintOperationState, fileWatchers, lints>>

vars == <<isRunningSupportedTypeScriptVersion, warnedAboutTSVersion, extra,
          programCache, logCalls, calls, conv, watchVars, frames>>

----------------------------------------------------------------------------
(* Bounds of the model *)

MaxCalls == 2      \* parse calls in one behaviour
MaxBody == 3       \* statements in a generated directive body

----------------------------------------------------------------------------
(* Native syntax trees, as ts.createSourceFile builds them *)

NoNode == [kind |-> "None", text |-> "", flags |-> {}, kids |-> <<>>]

Shape(kind, text, flags, kids) ==
  [kind |-> kind, text |-> text, flags |-> flags, kids |-> kids]

Present(n) == n.kind # "None"

Identifier(name) == Shape("Identifier", name, {}, <<>>)
NumericLiteral(raw) == Shape("NumericLiteral", raw, {}, <<>>)
StringLiteral(raw) == Shape("StringLiteral", raw, {}, <<>>)
KeywordType(kind, word) == Shape(kind, word, {}, <<>>)
ParenthesizedExpression(e) == Shape("ParenthesizedExpression", "", {}, <<e>>)
SpreadElement(expression) == Shape("SpreadElement", "", {}, <<expression>>)
SpreadAssignment(expression) == Shape("SpreadAssignment", "", {}, <<expression>>)
ArrayLiteralExpression(elements) ==
  Shape("ArrayLiteralExpression", "", {}, elements)
ObjectLiteralExpression(properties) ==
  Shape("ObjectLiteralExpression", "", {}, properties)
PropertyAssignment(name, initializer) ==
  Shape("PropertyAssignment", "", {}, <<name, initializer>>)
ShorthandPropertyAssignment(name, objectAssignmentInitializer) ==
  Shape("ShorthandPropertyAssignment", "", {},
        <<name, objectAssignmentInitializer>>)
BinaryExpression(left, op, right) ==
  Shape("BinaryExpression", op, {}, <<left, right>>)
CallExpression(expression, arguments) ==
  Shape("CallExpression", "", {}, <<expression>> \o arguments)
ExpressionStatement(e) == Shape("ExpressionStatement", "", {}, <<e>>)
Block(statements) == Shape("Block", "", {}, statements)
ForOfStatement(initializer, expression, statement) ==
  Shape("ForOfStatement", "", {}, <<initializer, expression, statement>>)
ForInStatement(initializer, expression, statement) ==
  Shape("ForInStatement", "", {}, <<initializer, expression, statement>>)
VariableDeclaration(name, type, initializer) ==
  Shape("VariableDeclaration", "", {}, <<name, type, initializer>>)
VariableDeclarationList(declarations) ==
  Shape("VariableDeclarationList", "", {}, declarations)
VariableStatement(declarationList) ==
  Shape("VariableStatement", "", {}, <<declarationList>>)
JsxSelfClosingElement(tagName) ==
  Shape("JsxSelfClosingElement", "", {}, <<tagName>>)
Decorator(e) == Shape("Decorator", "", {}, <<e>>)
Parameter(flags, decorators, name, type, initializer) ==
  Shape("Parameter", "", flags, decorators \o <<name, type, initializer>>)
ArrowFunction(parameters, body) ==
  Shape("ArrowFunction", "", {}, parameters \o <<body>>)
ComputedPropertyName(e) == Shape("ComputedPropertyName", "", {}, <<e>>)
ExpressionWithTypeArguments(expression, typeArguments) ==
  Shape("ExpressionWithTypeArguments", "",
        IF typeArguments = <<>> THEN {} ELSE {"typeArguments"},
        <<expression>> \o typeArguments)
TypeReference(typeName, typeArguments) ==
  Shape("TypeReference", "",
        IF typeArguments = <<>> THEN {} ELSE {"typeArguments"},
        <<typeName>> \o typeArguments)
(* B<>: the type-argument list is there and has no element *)
EmptyTypeArguments(n) == [n EXCEPT !.flags = @ \cup {"typeArguments"}]
(* B<number >: a space before the closing angle bracket *)
Spaced(n) == [n EXCEPT !.flags = @ \cup {"space"}]
HeritageClause(token, types) == Shape("HeritageClause", token, {}, types)
ClassDeclaration(name, heritageClauses) ==
  Shape("ClassDeclaration", "", {}, <<name>> \o heritageClauses)
AsExpression(expression, type) ==
  Shape("AsExpression", "", {}, <<expression, type>>)
ThisType == Shape("ThisType", "this", {}, <<>>)
NotEmittedStatement == Shape("NotEmittedStatement", ";", {}, <<>>)
SourceFile(statements) == Shape("SourceFile", "", {}, statements)

(* The modifiers and marker tokens of a parameter, in source order *)
ModifierText(flags) ==
  (IF "public" \in flags THEN "public " ELSE "")
    \o (IF "readonly" \in flags THEN "readonly " ELSE "")

(* The tokens of a node that are not part of a child: Opening at the start *)
(* of the node, Before(n, i) right before child i, Closing at the end.        *)
Opening(n) ==
  CASE n.kind \in {"Identifier", "NumericLiteral", "StringLiteral",
                   "NumberKeyword", "StringKeyword", "ThisType",
                   "NotEmittedStatement"} -> n.text
    [] n.kind = "ParenthesizedExpression" -> "("
    [] n.kind \in {"SpreadElement", "SpreadAssignment"} -> "..."
    [] n.kind = "ArrayLiteralExpression" -> "["
    [] n.kind \in {"ObjectLiteralExpression", "Block"} -> "{"
    [] n.kind \in {"ForOfStatement", "ForInStatement"} -> "for("
    [] n.kind = "VariableStatement" -> "var "
    [] n.kind = "JsxSelfClosingElement" -> "<"
    [] n.kind = "Decorator" -> "@"
    [] n.kind \in {"ArrowFunction"} -> "("
    [] n.kind = "ComputedPropertyName" -> "["
    [] n.kind = "ClassDeclaration" -> "class "
    [] n.kind = "HeritageClause" -> " " \o n.text \o " "
    [] OTHER -> ""

Before(n, i) ==
  CASE n.kind \in {"ArrayLiteralExpression", "ObjectLiteralExpression",
                   "VariableDeclarationList", "HeritageClause"} ->
         IF i > 1 THEN "," ELSE ""
    [] n.kind = "PropertyAssignment" -> IF i = 2 THEN ":" ELSE ""
    [] n.kind = "ShorthandPropertyAssignment" -> IF i = 2 THEN "=" ELSE ""
    [] n.kind = "BinaryExpression" -> IF i = 2 THEN n.text ELSE ""
    [] n.kind = "CallExpression" ->
         IF i = 2 THEN "(" ELSE IF i > 2 THEN "," ELSE ""
    [] n.kind = "ForOfStatement" ->
         IF i = 2 THEN " of " ELSE IF i = 3 THEN ")" ELSE ""
    [] n.kind = "ForInStatement" ->
         IF i = 2 THEN " in " ELSE IF i = 3 THEN ")" ELSE ""
    [] n.kind = "VariableDeclaration" ->
         IF i = 2 THEN ":" ELSE IF i = 3 THEN "=" ELSE ""
    [] n.kind = "Parameter" ->
         IF i = Len(n.kids) - 2
           THEN (IF i > 1 THEN " " ELSE "")
                  \o ModifierText(n.flags)
                  \o (IF "dotDotDot" \in n.flags THEN "..." ELSE "")
           ELSE IF i = Len(n.kids) - 1
             THEN (IF "question" \in n.flags THEN "?:" ELSE ":")
             ELSE IF i = Len(n.kids) THEN "=" ELSE ""
    [] n.kind = "ArrowFunction" ->
         IF i = Len(n.kids) THEN ")=>" ELSE IF i > 1 THEN "," ELSE ""
    [] n.kind \in {"ExpressionWithTypeArguments", "TypeReference"} ->
         IF i = 2 THEN "<" ELSE IF i > 2 THEN "," ELSE ""
    [] n.kind = "AsExpression" -> IF i = 2 THEN " as " ELSE ""
    [] OTHER -> ""

Closing(n) ==
  CASE n.kind = "ParenthesizedExpression" -> ")"
    [] n.kind \in {"ArrayLiteralExpression", "ComputedPropertyName"} -> "]"
    [] n.kind \in {"ObjectLiteralExpression", "Block"} -> "}"
    [] n.kind = "CallExpression" -> IF Len(n.kids) = 1 THEN "()" ELSE ")"
    [] n.kind \in {"ExpressionStatement", "VariableStatement"} -> ";"
    [] n.kind = "JsxSelfClosingElement" -> "/>"
    [] n.kind \in {"ExpressionWithTypeArguments", "TypeReference"} ->
         IF "typeArguments" \in n.flags
           THEN (IF Len(n.kids) = 1 THEN "<" ELSE "")
                  \o (IF "space" \in n.flags THEN " " ELSE "") \o ">"
           ELSE ""
    [] n.kind = "ClassDeclaration" -> "{}"
    [] OTHER -> ""

(* The source text of a tree (ast.text); TextOfKids(n, i) is the text of   *)
(* the first i children of n with the tokens before each of them           *)
RECURSIVE TextOf(_), TextOfKids(_, _)
TextOf(n) ==
  IF ~Present(n)
    THEN ""
    ELSE Opening(n) \o TextOfKids(n, Len(n.kids)) \o Closing(n)

TextOfKids(n, i) ==
  IF i = 0
    THEN ""
    ELSE TextOfKids(n, i - 1)
           \o (IF Present(n.kids[i])
                 THEN Before(n, i) \o TextOf(n.kids[i])
                 ELSE "")

(* ts.createSourceFile: every node gets its position in the text.  The     *)
(* generated sources have no trivia, so getStart() and pos coincide.       *)
(* Child i of n starts after the opening token of n, the text of the       *)
(* children before it and the token before it.                             *)
KidStart(n, i, at) ==
  at + Len(Opening(n)) + Len(TextOfKids(n, i - 1))
     + (IF Present(n.kids[i]) THEN Len(Before(n, i)) ELSE 0)

RECURSIVE Layout(_, _), LayoutKids(_, _, _)
Layout(n, at) ==
  [kind |-> n.kind, text |-> n.text, flags |-> n.flags,
   kids |-> IF Present(n) THEN LayoutKids(n, Len(n.kids), at) ELSE <<>>,
   pos |-> at, end |-> at + Len(TextOf(n))]

LayoutKids(n, i, at) ==
  IF i = 0
    THEN <<>>
    ELSE Append(LayoutKids(n, i - 1, at),
                Layout(n.kids[i], KidStart(n, i, at)))

(* The parse diagnostics of a tree, in source order: a string literal      *)
(* without its closing quote and a numeric literal followed by a letter    *)
LastCharacter(text) == SubSeq(text, Len(text), Len(text))

TokenDiagnostics(n) ==
  IF n.kind = "StringLiteral" /\ (Len(n.text) < 2 \/ LastCharacter(n.text) # "'")
    THEN <<[messageText |-> "Unterminated string literal.", start |-> n.pos]>>
    ELSE IF n.kind = "NumericLiteral" /\ LastCharacter(n.text) = "a"
      THEN <<[messageText |-> "An identifier or keyword cannot immediately follow a numeric literal.",
              start |-> n.end - 1]>>
      ELSE <<>>

RECURSIVE parseDiagnosticsOf(_), KidDiagnostics(_, _)
parseDiagnosticsOf(n) == TokenDiagnostics(n) \o KidDiagnostics(n, Len(n.kids))

KidDiagnostics(n, i) ==
  IF i = 0
    THEN <<>>
    ELSE KidDiagnostics(n, i - 1) \o parseDiagnosticsOf(n.kids[i])

(* A source file object: its tree, its text and its parse diagnostics *)
createSourceFile(code) ==
  [ast |-> Layout(code, 0), text |-> TextOf(code),
   parseDiagnostics |-> parseDiagnosticsOf(Layout(code, 0))]

(* A native node is addressed by its path from the root *)
RECURSIVE At(_, _)
At(n, p) == IF p = <<>> THEN n ELSE At(n.kids[Head(p)], Tail(p))

RECURSIVE SetKind(_, _, _)
SetKind(n, p, kind) ==
  IF p = <<>>
    THEN [n EXCEPT !.kind = kind]
    ELSE [n EXCEPT !.kids[Head(p)] = SetKind(@, Tail(p), kind)]

Kid(p, i) == Append(p, i)
ParentOf(p) == SubSeq(p, 1, Len(p) - 1)
KidPaths(p, from, to) == [i \in 1..(to - from + 1) |-> Append(p, from + i - 1)]

(* The node objects of a tree by path, as the converter reaches them *)
RECURSIVE Nodes(_, _), KidNodes(_, _, _)
Nodes(n, p) == (p :> n) @@ KidNodes(n, p, Len(n.kids))

KidNodes(n, p, i) ==
  IF i = 0
    THEN <<>>
    ELSE KidNodes(n, p, i - 1) @@ Nodes(n.kids[i], Append(p, i))

NodeAt(nodes, p) == nodes[p]

(* All paths of a tree, root first *)
RECURSIVE PathsOf(_, _)
PathsOf(n, p) ==
  {p} \cup UNION {PathsOf(n.kids[i], Append(p, i)) : i \in 1..Len(n.kids)}

----------------------------------------------------------------------------
(* node-utils *)

NoPath == <<0>>

(* findFirstMatchingAncestor: the node itself, then its ancestors upwards *)
findFirstMatchingAncestor(ast, p, kinds) ==
  LET hits == {i \in 0..Len(p) : NodeAt(ast, SubSeq(p, 1, i)).kind \in kinds}
  IN IF hits = {}
       THEN NoPath
       ELSE SubSeq(p, 1, CHOOSE i \in hits : \A j \in hits : j <= i)

findAncestorOfKind(ast, p, kind) == findFirstMatchingAncestor(ast, p, {kind})

(* findChildOfKind: the first descendant of the kind, in source order *)
RECURSIVE findFirstMatchingChild(_, _, _, _)
findFirstMatchingChild(ast, p, kind, i) ==
  IF i > Len(NodeAt(ast, p).kids)
    THEN NoPath
    ELSE IF NodeAt(ast, Kid(p, i)).kind = kind
      THEN Kid(p, i)
      ELSE LET grandChild == findFirstMatchingChild(ast, Kid(p, i), kind, 1)
           IN IF grandChild # NoPath
                THEN grandChild
                ELSE findFirstMatchingChild(ast, p, kind, i + 1)

findChildOfKind(ast, p, kind) == findFirstMatchingChild(ast, p, kind, 1)

AssignmentOperators == {"=", "+="}
LogicalOperators == {"&&"}

getBinaryExpressionType(operator) ==
  IF operator \in AssignmentOperators
    THEN "AssignmentExpression"
    ELSE IF operator \in LogicalOperators
      THEN "LogicalExpression"
      ELSE "BinaryExpression"

isComma(operator) == operator = ","

canContainDirective(ast, p) ==
  LET kind == NodeAt(ast, p).kind
  IN \/ kind = "SourceFile"
     \/ /\ kind = "Block"
        /\ p # <<>>
        /\ NodeAt(ast, ParentOf(p)).kind = "ArrowFunction"

(* unescapeStringLiteralText decodes character entities *)
unescapeStringLiteralText(text) == IF text = "&lt;" THEN "<" ELSE text

(* findNextToken: the token that follows a node starts where the node     *)
(* ends, its leading trivia included; the tokens looked for are one        *)
(* character long                                                          *)
RECURSIVE skipTrivia(_, _)
skipTrivia(text, pos) ==
  IF pos < Len(text) /\ SubSeq(text, pos + 1, pos + 1) = " "
    THEN skipTrivia(text, pos + 1)
    ELSE pos

findNextToken(node, text) ==
  [pos |-> node.end, end |-> skipTrivia(text, node.end) + 1]

(* node.typeArguments: the NodeArray starts after the opening angle        *)
(* bracket and ends where its last element ends; an empty one ends where   *)
(* it starts                                                               *)
typeArgumentsOf(node) ==
  [pos |-> node.kids[1].end + 1,
   end |-> IF Len(node.kids) > 1
             THEN node.kids[Len(node.kids)].end
             ELSE node.kids[1].end + 1,
   length |-> Len(node.kids) - 1]

hasTypeArguments(node) == "typeArguments" \in node.flags

(* fixExports: a declaration without an export modifier is returned as is; *)
(* the generated declarations carry none.                                  *)
fixExports(node, result) == result

hasModifier(modifier, node) == modifier \in node.flags

getTSNodeAccessibility(node) ==
  IF "public" \in node.flags THEN "public" ELSE "undefined"

isComputedProperty(node) == node.kind = "ComputedPropertyName"

(* The members of AST_NODE_TYPES that the modelled rules can produce *)
AST_NODE_TYPES ==
  {"ArrayExpression", "ArrayPattern", "ArrowFunctionExpression",
   "AssignmentExpression", "AssignmentPattern", "BinaryExpression",
   "BlockStatement", "CallExpression", "ClassBody", "ClassDeclaration",
   "ClassImplements", "Decorator", "ExpressionStatement", "ForInStatement",
   "ForOfStatement", "Identifier", "JSXElement", "JSXIdentifier",
   "JSXOpeningElement", "Literal", "LogicalExpression", "ObjectExpression",
   "ObjectPattern", "Program", "Property", "RestElement",
   "SequenceExpression", "TSAsExpression", "TSNumberKeyword",
   "TSParameterProperty", "TSStringKeyword", "TSThisType",
   "TSTypeAnnotation", "TSTypeParameterInstantiation",
   "VariableDeclaration", "VariableDeclarator"}

----------------------------------------------------------------------------
(* Target (ESTree) nodes *)

NullT == [id |-> 0, type |-> "null", range |-> <<0, 0>>,
          attrs |-> {}, sub |-> <<>>]

IsNode(t) == t.type # "null"

HasAttr(t, key) == \E a \in t.attrs : a[1] = key
Attr(t, key) == (CHOOSE a \in t.attrs : a[1] = key)[2]
SetAttr(t, key, value) ==
  [t EXCEPT !.attrs = {a \in @ : a[1] # key} \cup {<<key, value>>}]

(* The nodes held in a field, in order *)
RECURSIVE FieldOf(_, _)
FieldOf(sub, field) ==
  IF sub = <<>>
    THEN <<>>
    ELSE (IF Head(sub)[1] = field THEN <<Head(sub)[2]>> ELSE <<>>)
           \o FieldOf(Tail(sub), field)

HasField(t, field) == \E i \in 1..Len(t.sub) : t.sub[i][1] = field
Field(t, field) == FieldOf(t.sub, field)[1]

(* field: node  and  field: [node, ...] *)
One(field, t) == << <<field, t>> >>
Many(field, ts) == [i \in 1..Len(ts) |-> <<field, ts[i]>>]

Bool(b) == IF b THEN "true" ELSE "false"

(* Every node of a target tree: the node and all nodes below it *)
RECURSIVE NodesOf(_)
NodesOf(t) ==
  IF ~IsNode(t)
    THEN {}
    ELSE {t} \cup UNION {NodesOf(t.sub[i][2]) : i \in 1..Len(t.sub)}

(* A tree without the identity of its objects, for deep equality *)
RECURSIVE Plain(_)
Plain(t) ==
  [id |-> 0, type |-> t.type, range |-> t.range, attrs |-> t.attrs,
   sub |-> [i \in 1..Len(t.sub) |-> <<t.sub[i][1], Plain(t.sub[i][2])>>]]

----------------------------------------------------------------------------
(* AbstractConverter (convert-base.ts) and Converter: one conversion run.  *)
(* The state of a run is threaded through the rules:                       *)
(*   ast      the native nodes by path (a rule may write to them)          *)
(*   text     ast.text                                                     *)
(*   nid      the identity the next allocated target node gets             *)
(*   tsNodeToESTreeNodeMap, esTreeNodeToTSNodeMap   the two WeakMaps       *)
(*   returned every <<native node, target node>> that convert returned     *)
(*   writes   the map writes in order                                      *)
(*   err      the error thrown, "" while none                              *)

NewConverter(ast, text, additionalOptions) ==
  [ast |-> Nodes(ast, <<>>), text |-> text,
   additionalOptions |-> additionalOptions,
   nid |-> 1, tsNodeToESTreeNodeMap |-> {}, esTreeNodeToTSNodeMap |-> {},
   returned |-> {}, writes |-> <<>>, err |-> "", errIndex |-> 0]

MapSet(map, key, value) == {e \in map : e[1] # key} \cup {<<key, value>>}

getRange(node) == <<node.pos, node.end>>

Done(st, res) == [st |-> st, res |-> res]
Throw(st, message) == [st |-> [st EXCEPT !.err = message], res |-> NullT]

(* throw nodeUtils.createError(ast, start, message) *)
createError(st, start, message) ==
  [st |-> [st EXCEPT !.err = message, !.errIndex = start], res |-> NullT]

(* createNode: a new object with the range of the native node *)
createNode(st, p, type, attrs, sub) ==
  Done([st EXCEPT !.nid = @ + 1],
       [id |-> st.nid, type |-> type, range |-> getRange(NodeAt(st.ast, p)),
        attrs |-> attrs, sub |-> sub])

(* An object literal that a rule builds itself, with its own range *)
newNode(st, type, range, attrs, sub) ==
  Done([st EXCEPT !.nid = @ + 1],
       [id |-> st.nid, type |-> type, range |-> range,
        attrs |-> attrs, sub |-> sub])

(* convert, lines 87-96: the result of the rule is written to the two     *)
(* maps after the rule returned, and returned                              *)
recordInMaps(r, p) ==
  IF r.st.err # ""
    THEN Done(r.st, NullT)
    ELSE Done([r.st EXCEPT
                 !.tsNodeToESTreeNodeMap =
                   IF IsNode(r.res)
                        /\ r.st.additionalOptions.shouldProvideParserServices
                     THEN MapSet(@, p, r.res.id) ELSE @,
                 !.esTreeNodeToTSNodeMap =
                   IF IsNode(r.res)
                        /\ r.st.additionalOptions.shouldProvideParserServices
                     THEN MapSet(@, r.res.id, p) ELSE @,
                 !.writes =
                   IF IsNode(r.res)
                        /\ r.st.additionalOptions.shouldProvideParserServices
                     THEN Append(@, <<p, r.res.id>>) ELSE @,
                 !.returned =
                   IF IsNode(r.res) THEN @ \cup {<<p, r.res.id>>} ELSE @],
              r.res)

(* A variant of the strict mode check that does not look the tag up *)
isUnknownInStrictMode(errorOnUnknownASTType, customType) ==
  errorOnUnknownASTType

(* deeplyCopy, lines 463-468: the strict mode check on the fallback tag *)
isUnknownASTType(errorOnUnknownASTType, customType) ==
  errorOnUnknownASTType /\ customType \notin AST_NODE_TYPES

(* convertBodyExpressionsToDirectives, lines 214-222: the filter *)
isDirectiveCandidate(child) ==
  /\ IsNode(child)
  /\ child.type = "ExpressionStatement"
  /\ HasField(child, "expression")
  /\ IsNode(Field(child, "expression"))
  /\ Field(child, "expression").type = "Literal"
  /\ Attr(Field(child, "expression"), "value") # ""
  /\ Attr(Field(child, "expression"), "typeof") = "string"

(* A variant that takes every text for a new one *)
isAlwaysNewDirective(unique, raw) == TRUE

(* line 224: a raw text registers only once *)
isNewDirective(unique, raw) == \A i \in 1..Len(unique) : unique[i] # raw

(* String.prototype.slice(1, -1) *)
Slice1(raw) == IF Len(raw) < 2 THEN "" ELSE SubSeq(raw, 2, Len(raw) - 1)

RECURSIVE markDirectives(_, _, _)
markDirectives(body, i, unique) ==
  IF i > Len(body)
    THEN body
    ELSE IF isDirectiveCandidate(body[i])
              /\ isNewDirective(unique, Attr(Field(body[i], "expression"), "raw"))
      THEN LET raw == Attr(Field(body[i], "expression"), "raw")
           IN markDirectives(
                [body EXCEPT ![i] = SetAttr(@, "directive", Slice1(raw))],
                i + 1, Append(unique, raw))
      ELSE markDirectives(body, i + 1, unique)

convertBodyExpressionsToDirectives(ast, p, body) ==
  IF canContainDirective(ast, p) THEN markDirectives(body, 1, <<>>) ELSE body

(* fixTypeAnnotationParentLocation *)
fixTypeAnnotationParentLocation(node, typeNode, typeAnnotationParent) ==
  [typeAnnotationParent EXCEPT !.range[2] = typeNode.end]

(* The native kinds the Converter class has a rule for (node.kind in this) *)
RuleKinds ==
  {"SourceFile", "Block", "Identifier", "ForInStatement", "ForOfStatement",
   "VariableDeclaration", "VariableStatement", "VariableDeclarationList",
   "ExpressionStatement", "ArrayLiteralExpression",
   "ObjectLiteralExpression", "PropertyAssignment",
   "ShorthandPropertyAssignment", "ComputedPropertyName", "ArrowFunction",
   "Parameter", "ClassDeclaration", "BinaryExpression", "CallExpression",
   "StringLiteral", "NumericLiteral", "JsxSelfClosingElement",
   "JsxOpeningElement", "NumberKeyword", "StringKeyword",
   "ParenthesizedExpression", "SpreadElement", "SpreadAssignment",
   "TypeReference"}

(* The array literal rule, lines 590-620: is the literal an assignment     *)
(* target or the child of a for-in / for-of statement                      *)
arrayIsInAssignment(ast, p) ==
  LET arrayAssignNode == findAncestorOfKind(ast, p, "BinaryExpression")
      parentKind == NodeAt(ast, ParentOf(p)).kind
  IN IF arrayAssignNode = NoPath
       THEN FALSE
       ELSE IF parentKind = "ShorthandPropertyAssignment"
         THEN FALSE
         ELSE IF parentKind = "CallExpression"
           THEN FALSE
           ELSE IF getBinaryExpressionType(NodeAt(ast, arrayAssignNode).text)
                     = "AssignmentExpression"
             THEN \/ findChildOfKind(ast, Kid(arrayAssignNode, 1),
                                     "ArrayLiteralExpression") = p
                  \/ Kid(arrayAssignNode, 1) = p
             ELSE FALSE

arrayIsInForOf(ast, p) ==
  p # <<>> /\ NodeAt(ast, ParentOf(p)).kind = "ForOfStatement"

arrayIsInForIn(ast, p) ==
  p # <<>> /\ NodeAt(ast, ParentOf(p)).kind = "ForInStatement"

arrayIsPattern(ast, p) ==
  arrayIsInAssignment(ast, p) \/ arrayIsInForOf(ast, p) \/ arrayIsInForIn(ast, p)

(* A variant of the object literal rule without its test of a call parent *)
objectIsInAssignmentIgnoringCall(ast, p) ==
  LET ancestorNode ==
        findFirstMatchingAncestor(ast, p, {"BinaryExpression", "ArrowFunction"})
      isAssign == /\ ancestorNode # NoPath
                  /\ NodeAt(ast, ancestorNode).kind = "BinaryExpression"
                  /\ NodeAt(ast, ancestorNode).text = "="
  IN /\ isAssign
     /\ NodeAt(ast, ParentOf(p)).kind # "ShorthandPropertyAssignment"
     /\ \/ Kid(ancestorNode, 1) = p
        \/ findChildOfKind(ast, Kid(ancestorNode, 1),
                           "ObjectLiteralExpression") = p

(* The object literal rule, lines 641-671 *)
objectIsInAssignment(ast, p) ==
  LET ancestorNode ==
        findFirstMatchingAncestor(ast, p, {"BinaryExpression", "ArrowFunction"})
      objectAssignNode ==
        IF /\ ancestorNode # NoPath
           /\ NodeAt(ast, ancestorNode).kind = "BinaryExpression"
           /\ NodeAt(ast, ancestorNode).text = "="
          THEN ancestorNode
          ELSE NoPath
      parentKind == NodeAt(ast, ParentOf(p)).kind
  IN IF objectAssignNode = NoPath
       THEN FALSE
       ELSE IF parentKind = "ShorthandPropertyAssignment"
         THEN FALSE
         ELSE IF Kid(objectAssignNode, 1) = p
           THEN TRUE
           ELSE IF parentKind = "CallExpression"
             THEN FALSE
             ELSE findChildOfKind(ast, Kid(objectAssignNode, 1),
                                  "ObjectLiteralExpression") = p

(* The binary expression rule, lines 1739-1766 *)
upperArrayIsInAssignment(ast, p) ==
  LET upperArrayNode ==
        findFirstMatchingAncestor(
          ast, p, {"ArrayLiteralExpression", "ObjectLiteralExpression"})
      upperArrayAssignNode ==
        IF upperArrayNode = NoPath
          THEN NoPath
          ELSE findAncestorOfKind(ast, upperArrayNode, "BinaryExpression")
  IN IF upperArrayAssignNode = NoPath
       THEN FALSE
       ELSE IF Kid(upperArrayAssignNode, 1) = upperArrayNode
         THEN TRUE
         ELSE findChildOfKind(ast, Kid(upperArrayAssignNode, 1),
                              "ArrayLiteralExpression") = upperArrayNode

(* The string literal rule, line 1886: parent.name === node *)
NamedKinds ==
  {"PropertyAssignment", "ShorthandPropertyAssignment", "VariableDeclaration",
   "ClassDeclaration"}

isNameOfParent(ast, p, parent) ==
  /\ parent # NoPath
  /\ \/ NodeAt(ast, parent).kind \in NamedKinds /\ Kid(parent, 1) = p
     \/ /\ NodeAt(ast, parent).kind = "Parameter"
        /\ Kid(parent, Len(NodeAt(ast, parent).kids) - 2) = p

(* The self-closing JSX rule, line 2014: the kind tag is overwritten *)
retagSelfClosing(ast, p) ==
  Nodes(SetKind(NodeAt(ast, <<>>), p, "JsxOpeningElement"), <<>>)

(* The keys of a native node that deeplyCopy walks, in order *)
KeysOf(kind) ==
  IF kind = "AsExpression" THEN <<"expression", "type">> ELSE <<>>

(* Sequencing: a call has returned, with its effects on the state, before *)
(* what follows uses its value                                             *)
With(r, F(_)) == IF DOMAIN r = {} THEN r ELSE F(r)

(* h followed by the rest of a list *)
Cons(h, t) == Done(t.st, <<h.res>> \o t.res)

RECURSIVE convert(_, _, _), convertList(_, _), applyRule(_, _, _),
          deeplyCopy(_, _), copyKeys(_, _, _, _), convertTypeAnnotation(_, _),
          convertTypeArgumentsToTypeParameters(_, _, _),
          convertParameters(_, _), convertDecorators(_, _),
          convertClassImplements(_, _), convertClassImplementsList(_, _),
          convertClassLike(_, _), Converter_Parameter(_, _, _),
          Converter_BinaryExpression(_, _),
          Converter_ShorthandPropertyAssignment(_, _),
          Converter_JsxSelfClosingElement(_, _)

(* convert(node, parent, inTypeMode), lines 69-96.  None of the modelled   *)
(* rules reads inTypeMode.                                                 *)
convert(st, p, parent) ==
  IF st.err # "" \/ p = NoPath \/ ~Present(NodeAt(st.ast, p))
    THEN Done(st, NullT)
    ELSE recordInMaps(
           IF NodeAt(st.ast, p).kind \in RuleKinds
             THEN applyRule(st, p,
                            IF parent # NoPath THEN parent ELSE ParentOf(p))
             ELSE deeplyCopy(st, p),
           p)

convertChild(st, p) == convert(st, p, NoPath)
convertChildType(st, p) == convert(st, p, NoPath)
convertType(st, p) == convert(st, p, NoPath)

(* nodes.map(el => this.convert(el)) *)
convertList(st, ps) ==
  IF ps = <<>>
    THEN Done(st, <<>>)
    ELSE With(convert(st, Head(ps), NoPath),
              LAMBDA h : Cons(h, convertList(h.st, Tail(ps))))

(* convertTypeAnnotation, lines 239-247 *)
convertTypeAnnotation(st, child) ==
  With(convertChildType(st, child),
       LAMBDA t : newNode(t.st, "TSTypeAnnotation",
                          <<NodeAt(st.ast, child).pos - 1, NodeAt(st.ast, child).end>>,
                          {}, One("typeAnnotation", t.res)))

(* lines 133-143: the closing angle bracket is looked for when the list   *)
(* has an element and its parent is a call expression or a type reference *)
scansForGreaterThan(typeArguments, typeArgumentsParent) ==
  /\ typeArguments.length > 0
  /\ typeArgumentsParent.kind \in {"CallExpression", "TypeReference"}

(* convertTypeArgumentsToTypeParameters, lines 119-157; the type arguments *)
(* of the node at p are its children from..Len                             *)
convertTypeArgumentsToTypeParameters(st, p, from) ==
  LET node == NodeAt(st.ast, p)
      typeArguments == typeArgumentsOf(node)
      start == typeArguments.pos - 1
      end == IF scansForGreaterThan(typeArguments, node)
               THEN findNextToken(node.kids[Len(node.kids)], st.text).end
               ELSE typeArguments.end + 1
  IN With(convertList(st, KidPaths(p, from, Len(node.kids))),
          LAMBDA params :
            newNode(params.st, "TSTypeParameterInstantiation", <<start, end>>,
                    {}, Many("params", params.res)))

(* convertDecorators, lines 274-284 *)
convertDecorators(st, ps) ==
  IF ps = <<>>
    THEN Done(st, <<>>)
    ELSE With(convertChild(st, Kid(Head(ps), 1)), LAMBDA e :
         With(createNode(e.st, Head(ps), "Decorator", {},
                         One("expression", e.res)), LAMBDA d :
         Cons(d, convertDecorators(d.st, Tail(ps)))))

(* convertParameters, lines 254-267 *)
convertParameters(st, ps) ==
  IF ps = <<>>
    THEN Done(st, <<>>)
    ELSE With(convertChild(st, Head(ps)), LAMBDA convertedParam :
         With(convertDecorators(
                convertedParam.st,
                KidPaths(Head(ps), 1, Len(NodeAt(st.ast, Head(ps)).kids) - 3)),
              LAMBDA decorators :
         With(IF decorators.res = <<>>
                THEN convertedParam
                ELSE Done(decorators.st,
                          [convertedParam.res EXCEPT
                             !.sub = @ \o Many("decorators", decorators.res)]),
              LAMBDA withDecorators :
         Cons(withDecorators,
              convertParameters(withDecorators.st, Tail(ps))))))

(* convertClassImplements, lines 434-448 *)
convertClassImplements(st, child) ==
  With(convertChild(st, Kid(child, 1)), LAMBDA id :
    IF hasTypeArguments(NodeAt(st.ast, child))
         /\ Len(NodeAt(st.ast, child).kids) > 1
      THEN With(convertTypeArgumentsToTypeParameters(id.st, child, 2),
                LAMBDA typeParameters :
                  newNode(typeParameters.st, "ClassImplements", id.res.range,
                          {}, One("id", id.res)
                                \o One("typeParameters", typeParameters.res)))
      ELSE newNode(id.st, "ClassImplements", id.res.range, {},
                   One("id", id.res)))

convertClassImplementsList(st, ps) ==
  IF ps = <<>>
    THEN Done(st, <<>>)
    ELSE With(convertClassImplements(st, Head(ps)),
              LAMBDA h : Cons(h, convertClassImplementsList(h.st, Tail(ps))))

(* deeplyCopy, lines 457-520 *)
copyKeys(st, p, i, result) ==
  LET keys == KeysOf(NodeAt(st.ast, p).kind)
  IN IF i > Len(keys) \/ st.err # ""
       THEN Done(st, result)
       ELSE IF keys[i] = "type"
         THEN With(IF Present(NodeAt(st.ast, Kid(p, i)))
                     THEN convertTypeAnnotation(st, Kid(p, i))
                     ELSE Done(st, NullT),
                   LAMBDA a :
                     copyKeys(a.st, p, i + 1,
                              [result EXCEPT
                                 !.sub = @ \o One("typeAnnotation", a.res)]))
         ELSE With(convertChild(st, Kid(p, i)),
                   LAMBDA c :
                     copyKeys(c.st, p, i + 1,
                              [result EXCEPT !.sub = @ \o One(keys[i], c.res)]))

deeplyCopy(st, p) ==
  IF isUnknownASTType(st.additionalOptions.errorOnUnknownASTType,
                      "TS" \o NodeAt(st.ast, p).kind)
    THEN Throw(st, "Unknown AST_NODE_TYPE")
    ELSE With(createNode(st, p, "TS" \o NodeAt(st.ast, p).kind, {}, <<>>),
              LAMBDA result : copyKeys(result.st, p, 1, result.res))

(* [SyntaxKind.Parameter], lines 1330-1380 *)
Converter_Parameter(st, p, parent) ==
  LET node == NodeAt(st.ast, p)
      n == Len(node.kids)
      name == Kid(p, n - 2)
      type == Kid(p, n - 1)
      initializer == Kid(p, n)
      hasType == Present(NodeAt(st.ast, type))
      rest == "dotDotDot" \in node.flags
      hasInitializer == Present(NodeAt(st.ast, initializer))
  IN With(IF rest \/ hasInitializer
            THEN convert(st, name, NoPath)
            ELSE convert(st, name, parent), LAMBDA parameter0 :
     With(IF rest
            THEN Done(parameter0.st, NullT)
            ELSE convert(parameter0.st, initializer, NoPath), LAMBDA right :
     With(IF hasType
            THEN convertTypeAnnotation(right.st, type)
            ELSE Done(right.st, NullT), LAMBDA annotation :
     With(IF hasType
            THEN fixTypeAnnotationParentLocation(
                   node, NodeAt(st.ast, type),
                   [parameter0.res EXCEPT
                      !.sub = @ \o One("typeAnnotation", annotation.res)])
            ELSE parameter0.res, LAMBDA annotated :
     With(IF "question" \in node.flags
            THEN SetAttr(annotated, "optional", "true")
            ELSE annotated, LAMBDA parameter :
     With(IF rest
            THEN createNode(annotation.st, p, "RestElement", {},
                            One("argument", parameter))
            ELSE IF hasInitializer
              THEN createNode(annotation.st, p, "AssignmentPattern", {},
                              One("left", parameter) \o One("right", right.res))
              ELSE Done(annotation.st, parameter), LAMBDA result :
       IF node.flags \cap {"public", "readonly"} # {}
         THEN newNode(result.st, "TSParameterProperty",
                      <<node.pos, node.end>>,
                      {<<"accessibility", getTSNodeAccessibility(node)>>,
                       <<"readonly", Bool(hasModifier("readonly", node))>>},
                      One("parameter", result.res))
         ELSE result))))))

(* [SyntaxKind.SpreadElement], lines 1285-1306: the type of the result *)
spreadElementType(ast, p) ==
  IF /\ Len(p) >= 2
     /\ NodeAt(ast, ParentOf(ParentOf(p))).kind = "BinaryExpression"
    THEN IF Kid(ParentOf(ParentOf(p)), 1) = ParentOf(p)
           THEN "RestElement"
           ELSE "SpreadElement"
    ELSE "SpreadElement"

(* [SyntaxKind.SpreadAssignment], lines 1307-1328: the type of the result *)
spreadAssignmentType(ast, p) ==
  IF /\ Len(p) >= 2
     /\ NodeAt(ast, ParentOf(ParentOf(p))).kind = "BinaryExpression"
    THEN IF Kid(ParentOf(ParentOf(p)), 2) = ParentOf(p)
           THEN "SpreadElement"
           ELSE IF Kid(ParentOf(ParentOf(p)), 1) = ParentOf(p)
             THEN "RestElement"
             ELSE "SpreadElement"
    ELSE "SpreadElement"

(* A variant that pushes every operand as it is *)
pushOperand(t) == <<t>>

(* lines 1715-1729: the expressions of a converted operand are             *)
(* concatenated, any other operand is pushed                               *)
operandExpressions(t) ==
  IF t.type = "SequenceExpression"
    THEN FieldOf(t.sub, "expressions")
    ELSE <<t>>

(* [SyntaxKind.BinaryExpression], lines 1703-1775 *)
Converter_BinaryExpression(st, p) ==
  LET node == NodeAt(st.ast, p)
      type == getBinaryExpressionType(node.text)
  IN With(convert(st, Kid(p, 1), NoPath), LAMBDA left :
     With(convert(left.st, Kid(p, 2), NoPath), LAMBDA right :
       IF isComma(node.text)
         THEN createNode(right.st, p, "SequenceExpression", {},
                         Many("expressions",
                              operandExpressions(left.res)
                                \o operandExpressions(right.res)))
         ELSE IF type = "AssignmentExpression"
                   /\ upperArrayIsInAssignment(st.ast, p)
           THEN createNode(right.st, p, "AssignmentPattern", {},
                           One("left", left.res) \o One("right", right.res))
           ELSE createNode(right.st, p, type, {<<"operator", node.text>>},
                           One("left", left.res) \o One("right", right.res))))

(* [SyntaxKind.ShorthandPropertyAssignment], lines 699-731 *)
Converter_ShorthandPropertyAssignment(st, p) ==
  LET attrs == {<<"computed", "false">>, <<"method", "false">>,
                <<"shorthand", "true">>, <<"kind", "init">>}
  IN With(convert(st, Kid(p, 1), NoPath), LAMBDA key :
     With(convert(key.st, Kid(p, 1), NoPath), LAMBDA value :
       IF Present(NodeAt(st.ast, Kid(p, 2)))
         THEN With(convert(value.st, Kid(p, 2), NoPath), LAMBDA right :
              With(newNode(right.st, "AssignmentPattern",
                           getRange(NodeAt(st.ast, p)), {},
                           One("left", value.res) \o One("right", right.res)),
                   LAMBDA pattern :
                     createNode(pattern.st, p, "Property", attrs,
                                One("key", key.res)
                                  \o One("value", pattern.res))))
         ELSE createNode(value.st, p, "Property", attrs,
                         One("key", key.res) \o One("value", value.res))))

(* [SyntaxKind.JsxSelfClosingElement], lines 2007-2025, with the            *)
(* JsxOpeningElement rule (2027-2037) it dispatches to after the retagging  *)
Converter_JsxSelfClosingElement(st, p) ==
  With(convert([st EXCEPT !.ast = retagSelfClosing(@, p)], p, NoPath),
       LAMBDA openingElement :
         createNode(openingElement.st, p, "JSXElement", {},
                    One("openingElement",
                        SetAttr(openingElement.res, "selfClosing", "true"))
                      \o One("closingElement", NullT)))

(* A variant that accepts any number of types *)
extendsAny(types) == FALSE

(* line 1446: superClass.types.length > 1 *)
extendsSeveral(types) == Len(types) > 1

(* convertClassLike, lines 1383-1509 *)
convertClassLike(st, p) ==
  LET node == NodeAt(st.ast, p)
      clauses == {i \in 2..Len(node.kids) : TRUE}
      lastClassToken == node.kids[Len(node.kids)]
      openBrace == findNextToken(lastClassToken, st.text)
      extending == {i \in clauses : node.kids[i].text = "extends"}
      implementing == {i \in clauses : node.kids[i].text = "implements"}
      superClass == CHOOSE i \in extending : \A j \in extending : i <= j
      implementsClause == CHOOSE i \in implementing : \A j \in implementing : i <= j
      hasSuper == extending # {}
      superType == Kid(Kid(p, superClass), 1)
      hasSuperTypeParameters ==
        hasSuper /\ hasTypeArguments(NodeAt(st.ast, superType))
  IN IF hasSuper /\ extendsSeveral(node.kids[superClass].kids)
       THEN createError(st, node.kids[superClass].kids[2].pos,
                        "Classes can only extend a single class.")
       ELSE
     With(IF hasSuperTypeParameters
            THEN convertTypeArgumentsToTypeParameters(st, superType, 2)
            ELSE Done(st, NullT), LAMBDA superTypeParameters :
     With(convert(superTypeParameters.st, Kid(p, 1), NoPath), LAMBDA id :
     With(newNode(id.st, "ClassBody", <<openBrace.pos, node.end>>, {}, <<>>),
          LAMBDA body :
     With(IF hasSuper
            THEN convert(body.st, Kid(superType, 1), NoPath)
            ELSE Done(body.st, NullT), LAMBDA superClassNode :
     With(IF implementing # {}
            THEN convertClassImplementsList(
                   superClassNode.st,
                   KidPaths(Kid(p, implementsClause), 1,
                            Len(node.kids[implementsClause].kids)))
            ELSE Done(superClassNode.st, <<>>), LAMBDA implements :
     With(createNode(implements.st, p, node.kind, {},
            (IF hasSuperTypeParameters
               THEN One("superTypeParameters", superTypeParameters.res)
               ELSE <<>>)
              \o One("id", id.res) \o One("body", body.res)
              \o One("superClass", superClassNode.res)
              \o Many("implements", implements.res)), LAMBDA result :
       Done(result.st, fixExports(node, result.res))))))))

(* The rules of class Converter, by native kind *)
applyRule(st, p, parent) ==
  LET node == NodeAt(st.ast, p)
      kind == node.kind
      n == Len(node.kids)
  IN CASE kind = "SourceFile" ->
            \* lines 288-313
            With(convertList(st, KidPaths(p, 1, n)), LAMBDA kids :
            With(createNode(kids.st, p, "Program",
                            {<<"sourceType", "script">>},
                            Many("body",
                                 convertBodyExpressionsToDirectives(
                                   st.ast, p, SelectSeq(kids.res, IsNode)))),
                 LAMBDA result :
                   Done(result.st, [result.res EXCEPT !.range[2] = node.end])))
       [] kind = "Block" ->
            \* lines 315-323
            With(convertList(st, KidPaths(p, 1, n)), LAMBDA kids :
              createNode(kids.st, p, "BlockStatement", {},
                         Many("body", convertBodyExpressionsToDirectives(
                                        st.ast, p, kids.res))))
       [] kind = "Identifier" ->
            \* lines 325-330
            createNode(st, p, "Identifier", {<<"name", node.text>>}, <<>>)
       [] kind = "ForInStatement" ->
            \* lines 468-475
            With(convert(st, Kid(p, 1), NoPath), LAMBDA left :
            With(convert(left.st, Kid(p, 2), NoPath), LAMBDA right :
            With(convert(right.st, Kid(p, 3), NoPath), LAMBDA body :
              createNode(body.st, p, kind, {},
                         One("left", left.res) \o One("right", right.res)
                           \o One("body", body.res)))))
       [] kind = "ForOfStatement" ->
            \* lines 477-489
            With(convert(st, Kid(p, 1), NoPath), LAMBDA left :
            With(convert(left.st, Kid(p, 2), NoPath), LAMBDA right :
            With(convert(right.st, Kid(p, 3), NoPath), LAMBDA body :
              createNode(body.st, p, kind, {<<"await", "false">>},
                         One("left", left.res) \o One("right", right.res)
                           \o One("body", body.res)))))
       [] kind = "VariableDeclaration" ->
            \* lines 529-545
            With(convert(st, Kid(p, 1), NoPath), LAMBDA id :
            With(convert(id.st, Kid(p, 3), NoPath), LAMBDA init :
              IF Present(node.kids[2])
                THEN With(convertTypeAnnotation(init.st, Kid(p, 2)),
                          LAMBDA annotation :
                            createNode(
                              annotation.st, p, "VariableDeclarator", {},
                              One("id", fixTypeAnnotationParentLocation(
                                          node, node.kids[2],
                                          [id.res EXCEPT
                                             !.sub = @ \o One("typeAnnotation",
                                                              annotation.res)]))
                                \o One("init", init.res)))
                ELSE createNode(init.st, p, "VariableDeclarator", {},
                                One("id", id.res) \o One("init", init.res))))
       [] kind = "VariableStatement" ->
            \* lines 547-562
            With(convertList(st, KidPaths(Kid(p, 1), 1, Len(node.kids[1].kids))),
                 LAMBDA declarations :
            With(createNode(declarations.st, p, "VariableDeclaration",
                            {<<"kind", "var">>},
                            Many("declarations", declarations.res)),
                 LAMBDA result : Done(result.st, fixExports(node, result.res))))
       [] kind = "VariableDeclarationList" ->
            \* lines 565-573
            With(convertList(st, KidPaths(p, 1, n)), LAMBDA kids :
              createNode(kids.st, p, "VariableDeclaration",
                         {<<"kind", "var">>}, Many("declarations", kids.res)))
       [] kind = "ExpressionStatement" ->
            \* lines 577-582
            With(convert(st, Kid(p, 1), NoPath), LAMBDA expression :
              createNode(expression.st, p, "ExpressionStatement", {},
                         One("expression", expression.res)))
       [] kind = "ArrayLiteralExpression" ->
            \* lines 590-636
            With(convertList(st, KidPaths(p, 1, n)), LAMBDA kids :
              createNode(kids.st, p,
                         IF arrayIsPattern(st.ast, p)
                           THEN "ArrayPattern" ELSE "ArrayExpression",
                         {}, Many("elements", kids.res)))
       [] kind = "ObjectLiteralExpression" ->
            \* lines 638-685
            With(convertList(st, KidPaths(p, 1, n)), LAMBDA kids :
              createNode(kids.st, p,
                         IF objectIsInAssignment(st.ast, p)
                           THEN "ObjectPattern" ELSE "ObjectExpression",
                         {}, Many("properties", kids.res)))
       [] kind = "PropertyAssignment" ->
            \* lines 687-697
            With(convert(st, Kid(p, 1), NoPath), LAMBDA key :
            With(convert(key.st, Kid(p, 2), NoPath), LAMBDA value :
              createNode(value.st, p, "Property",
                         {<<"computed", Bool(isComputedProperty(node.kids[1]))>>,
                          <<"method", "false">>, <<"shorthand", "false">>,
                          <<"kind", "init">>},
                         One("key", key.res) \o One("value", value.res))))
       [] kind = "ShorthandPropertyAssignment" ->
            Converter_ShorthandPropertyAssignment(st, p)
       [] kind = "ComputedPropertyName" ->
            \* lines 733-751; the node has no name field
            IF NodeAt(st.ast, parent).kind = "ObjectLiteralExpression"
              THEN createNode(st, p, "Property",
                              {<<"computed", "false">>, <<"method", "false">>,
                               <<"shorthand", "true">>, <<"kind", "init">>},
                              One("key", NullT) \o One("value", NullT))
              ELSE convert(st, Kid(p, 1), NoPath)
       [] kind = "ArrowFunction" ->
            \* lines 1163-1185
            With(convertParameters(st, KidPaths(p, 1, n - 1)), LAMBDA params :
            With(convert(params.st, Kid(p, n), NoPath), LAMBDA body :
              createNode(body.st, p, "ArrowFunctionExpression",
                         {<<"generator", "false">>, <<"async", "false">>,
                          <<"expression", Bool(node.kids[n].kind # "Block")>>},
                         Many("params", params.res) \o One("body", body.res))))
       [] kind = "SpreadElement" ->
            \* lines 1285-1306
            With(convert(st, Kid(p, 1), NoPath), LAMBDA argument :
              createNode(argument.st, p, spreadElementType(st.ast, p), {},
                         One("argument", argument.res)))
       [] kind = "SpreadAssignment" ->
            \* lines 1307-1328
            With(convert(st, Kid(p, 1), NoPath), LAMBDA argument :
              createNode(argument.st, p, spreadAssignmentType(st.ast, p), {},
                         One("argument", argument.res)))
       [] kind = "Parameter" -> Converter_Parameter(st, p, parent)
       [] kind = "ClassDeclaration" ->
            \* lines 1511-1513
            convertClassLike(st, p)
       [] kind = "BinaryExpression" -> Converter_BinaryExpression(st, p)
       [] kind = "CallExpression" ->
            \* lines 1830-1842
            With(convertList(st, KidPaths(p, 1, n)), LAMBDA kids :
              createNode(kids.st, p, "CallExpression", {},
                         One("callee", Head(kids.res))
                           \o Many("arguments", Tail(kids.res))))
       [] kind = "TypeReference" ->
            \* lines 2142-2150
            With(convertType(st, Kid(p, 1)), LAMBDA typeName :
            With(IF hasTypeArguments(node)
                   THEN convertTypeArgumentsToTypeParameters(typeName.st, p, 2)
                   ELSE Done(typeName.st, NullT), LAMBDA typeParameters :
              createNode(typeParameters.st, p, "TSTypeReference", {},
                         One("typeName", typeName.res)
                           \o One("typeParameters", typeParameters.res))))
       [] kind = "StringLiteral" ->
            \* lines 1876-1892
            createNode(st, p, "Literal",
                       {<<"raw", SubSeq(st.text, node.pos + 1, node.end)>>,
                        <<"typeof", "string">>,
                        <<"value", IF isNameOfParent(st.ast, p, parent)
                                     THEN Slice1(node.text)
                                     ELSE unescapeStringLiteralText(
                                            Slice1(node.text))>>},
                       <<>>)
       [] kind = "NumericLiteral" ->
            \* lines 1894-1902
            createNode(st, p, "Literal",
                       {<<"raw", SubSeq(st.text, node.pos + 1, node.end)>>,
                        <<"typeof", "number">>, <<"value", node.text>>},
                       <<>>)
       [] kind = "JsxSelfClosingElement" ->
            Converter_JsxSelfClosingElement(st, p)
       [] kind = "JsxOpeningElement" ->
            \* lines 2027-2037; the name is built from the tag name token
            With(newNode(st, "JSXIdentifier", getRange(node.kids[1]),
                         {<<"name", SubSeq(st.text, node.kids[1].pos + 1,
                                           node.kids[1].end)>>},
                         <<>>),
                 LAMBDA name :
                   createNode(name.st, p, "JSXOpeningElement",
                              {<<"selfClosing", "false">>},
                              One("name", name.res)))
       [] kind \in {"NumberKeyword", "StringKeyword"} ->
            \* lines 2175-2183, createSimpleNode
            createNode(st, p, "TS" \o kind, {}, <<>>)
       [] kind = "ParenthesizedExpression" ->
            \* lines 2275-2280
            convert(st, Kid(p, 1), parent)

----------------------------------------------------------------------------
(* ast-converter: the exported function (ast, extra,                       *)
(* shouldProvideParserServices).  JavaScript values that may be undefined  *)
(* are the strings "undefined", "null", "true", "false".                   *)

Truthy(v) == v \notin {"undefined", "null", "false", "0", ""}

NoRun ==
  [called |-> FALSE, before |-> NoNode, ast |-> NoNode, err |-> "",
   errIndex |-> 0,
   estree |-> NullT, astMaps |-> FALSE,
   tsNodeToESTreeNodeMap |-> {}, esTreeNodeToTSNodeMap |-> {},
   returned |-> {}, writes |-> <<>>,
   errorOnUnknownASTType |-> FALSE, shouldProvideParserServices |-> FALSE]

(* lines 41-50: the token and comment lists are attached on request *)
withTokensAndComments(estree, extraArg) ==
  IF Truthy(extraArg.tokens)
    THEN IF Truthy(extraArg.comment)
           THEN SetAttr(SetAttr(estree, "tokens", "[]"), "comments", "[]")
           ELSE SetAttr(estree, "tokens", "[]")
    ELSE IF Truthy(extraArg.comment)
           THEN SetAttr(estree, "comments", "[]")
           ELSE estree

(* A variant of the entry check that never finds a diagnostic *)
hasNoParseDiagnostics(sourceFile) == FALSE

(* line 23: ast.parseDiagnostics.length *)
hasParseDiagnostics(sourceFile) == sourceFile.parseDiagnostics # <<>>

astConverter(sourceFile, extraArg, shouldProvideParserServices) ==
  IF hasParseDiagnostics(sourceFile)
    THEN [NoRun EXCEPT !.called = TRUE, !.before = sourceFile.ast,
                       !.ast = sourceFile.ast,
                       !.err = sourceFile.parseDiagnostics[1].messageText,
                       !.errIndex = sourceFile.parseDiagnostics[1].start]
    ELSE With(convert(NewConverter(
                        sourceFile.ast, sourceFile.text,
                        [errorOnUnknownASTType |->
                           Truthy(extraArg.errorOnUnknownASTType),
                         useJSXTextNode |-> Truthy(extraArg.useJSXTextNode),
                         shouldProvideParserServices |->
                           Truthy(shouldProvideParserServices)]),
                      <<>>, NoPath),
              LAMBDA r :
                [called |-> TRUE, before |-> sourceFile.ast,
                 ast |-> NodeAt(r.st.ast, <<>>),
                 err |-> r.st.err, errIndex |-> r.st.errIndex,
                 estree |->
                   IF r.st.err # ""
                     THEN NullT
                     ELSE withTokensAndComments(r.res, extraArg),
                 astMaps |-> r.st.err = ""
                               /\ Truthy(shouldProvideParserServices),
                 tsNodeToESTreeNodeMap |-> r.st.tsNodeToESTreeNodeMap,
                 esTreeNodeToTSNodeMap |-> r.st.esTreeNodeToTSNodeMap,
                 returned |-> r.st.returned, writes |-> r.st.writes,
                 errorOnUnknownASTType |->
                   Truthy(extraArg.errorOnUnknownASTType),
                 shouldProvideParserServices |->
                   Truthy(shouldProvideParserServices)])

----------------------------------------------------------------------------
(* The file system the resolver reads, and the tsconfig resolver with its  *)
(* program cache                                                           *)

Tsconfigs == {"tsconfig.json", "tsconfig.b.json"}
ProjectFile == "a.tsx"

(* parsedCommandLine.fileNames of each tsconfig *)
fileNames(tsconfigPath) ==
  IF tsconfigPath = "tsconfig.json" THEN {ProjectFile} ELSE {ProjectFile, "b.tsx"}
DiskCode == SourceFile(<<ExpressionStatement(Identifier("d"))>>)
LintCodes ==
  {SourceFile(<<ExpressionStatement(Identifier("a"))>>),
   SourceFile(<<ExpressionStatement(Identifier("b"))>>)}

Directories == {"."}
MalformedTsconfigs == {"badTSConfig/tsconfig.json"}

(* fs.existsSync, and fs.readFileSync, which throws for a directory *)
existsSync(path) == path \in Tsconfigs \cup Directories \cup MalformedTsconfigs
readFileSync(path) ==
  IF path \in Directories
    THEN [threw |-> TRUE, text |-> ""]
    ELSE [threw |-> FALSE,
          text |-> IF path \in MalformedTsconfigs THEN "{" ELSE "{}"]

readTSConfigText(tsconfigPath) ==
  IF ~existsSync(tsconfigPath)
    THEN "null"
    ELSE IF readFileSync(tsconfigPath).threw
      THEN "null"
      ELSE readFileSync(tsconfigPath).text

(* A variant of the tsconfig parser that reports no error *)
parseTSCommandLineAccepting(tsconfigPath, tsconfigContents) ==
  [errors |-> <<>>, fileNames |-> fileNames(tsconfigPath)]

(* parseTSCommandLine, lines 43-54 *)
parseTSCommandLine(tsconfigPath, tsconfigContents) ==
  [errors |-> IF tsconfigContents = "{}" THEN <<>> ELSE <<"'}' expected.">>,
   fileNames |-> fileNames(tsconfigPath)]

(* ts.createProgram with the compiler host of lines 99-117: the file being *)
(* linted is read from code, any other file from the disk                  *)
createProjectProgram(tsconfigPath, code, options) ==
  [configPath |-> tsconfigPath,
   sourceFiles |-> [filename \in fileNames(tsconfigPath) |->
                      IF filename = options.filePath
                        THEN createSourceFile(code)
                        ELSE createSourceFile(DiskCode)]]

CacheHas(cache, tsconfigPath) == \E e \in cache : e.path = tsconfigPath
CacheGet(cache, tsconfigPath) == CHOOSE e \in cache : e.path = tsconfigPath
(* A variant that stores nothing *)
CacheKeep(cache, tsconfigPath, text, program) == cache

(* programCache.set, line 127 *)
CacheSet(cache, tsconfigPath, text, program) ==
  {e \in cache : e.path # tsconfigPath}
    \cup {[path |-> tsconfigPath, text |-> text, program |-> program]}

(* calculateProjectParserOptions, one round of the loop per project path *)
RECURSIVE calculateProjectParserOptions(_, _, _, _)
calculateProjectParserOptions(cache, code, options, project) ==
  IF project = <<>>
    THEN [results |-> <<>>, cache |-> cache, err |-> ""]
    ELSE LET tsconfigPath == Head(project)
             tsconfigContents == readTSConfigText(tsconfigPath)
             hit == /\ CacheHas(cache, tsconfigPath)
                    /\ CacheGet(cache, tsconfigPath).text = tsconfigContents
             program == IF hit
                          THEN CacheGet(cache, tsconfigPath).program
                          ELSE createProjectProgram(tsconfigPath, code, options)
             rest == calculateProjectParserOptions(
                       IF hit THEN cache
                              ELSE CacheSet(cache, tsconfigPath,
                                            tsconfigContents, program),
                       code, options, Tail(project))
         IN IF tsconfigContents = "null"
              THEN [results |-> <<>>, cache |-> cache,
                    err |-> "Could not read provided tsconfig.json: "
                              \o tsconfigPath]
              ELSE IF /\ ~hit
                      /\ parseTSCommandLine(tsconfigPath,
                                            tsconfigContents).errors # <<>>
              THEN [results |-> <<>>, cache |-> cache,
                    err |-> "Parsing " \o tsconfigPath
                              \o " resulted in errors."]
              ELSE [results |-> <<program>> \o rest.results,
                    cache |-> rest.cache, err |-> rest.err]

----------------------------------------------------------------------------
(* lib/tsconfig-parser.js: the resolver that keeps one watch program per   *)
(* tsconfig.  A watch is [path, program, changed]: the program it built    *)
(* last and the files it was told have changed since.  A callback is       *)
(* named by the tsconfig path of the watch that registered it.             *)

WatchHas(known, tsconfigPath) == \E e \in known : e.path = tsconfigPath
WatchGet(known, tsconfigPath) == CHOOSE e \in known : e.path = tsconfigPath

(* watchCompilerHost.readFile, lines 96-101 *)
readFile(lintState, filePath) ==
  IF filePath = lintState.filePath THEN lintState.code ELSE TextOf(DiskCode)

(* The text of each file of a tree that was read through readFile *)
CodeOf(text) ==
  CHOOSE code \in {DiskCode} \cup LintCodes : TextOf(code) = text

(* A watch callback called with FileWatcherEventKind.Changed: the watch    *)
(* that registered it notes the file as changed                            *)
watchCallback(known, callback, fileName) ==
  {IF e.path = callback THEN [e EXCEPT !.changed = @ \cup {fileName}] ELSE e :
     e \in known}

(* existingWatch.getProgram(), line 81: the files noted as changed are     *)
(* read again                                                              *)
getProgram(watch, lintState) ==
  [path |-> watch.path,
   program |->
     [configPath |-> watch.path,
      sourceFiles |->
        [f \in DOMAIN watch.program.sourceFiles |->
           IF f \in watch.changed
             THEN createSourceFile(CodeOf(readFile(lintState, f)))
             ELSE watch.program.sourceFiles[f]]],
   changed |-> {}]

(* watchCompilerHost.watchFile, lines 110-118: Map.set *)
watchFile(callbacks, fileName, callback) ==
  {c \in callbacks : c.fileName # fileName}
    \cup {[fileName |-> fileName, callback |-> callback]}

(* The close of the watcher watchFile returned, lines 114-116: Map.delete *)
close(callbacks, normalizedFileName) ==
  {c \in callbacks : c.fileName # normalizedFileName}

RECURSIVE watchFiles(_, _, _)
watchFiles(callbacks, files, callback) ==
  IF files = {}
    THEN callbacks
    ELSE LET fileName == CHOOSE f \in files : TRUE
         IN watchFiles(watchFile(callbacks, fileName, callback),
                       files \ {fileName}, callback)

(* ts.createWatchProgram, line 124: the program is built from the files  *)
(* of the tsconfig, read through readFile, and every file is watched      *)
createWatchProgram(tsconfigPath, lintState) ==
  [path |-> tsconfigPath,
   program |->
     [configPath |-> tsconfigPath,
      sourceFiles |-> [f \in fileNames(tsconfigPath) |->
                         createSourceFile(CodeOf(readFile(lintState, f)))]],
   changed |-> {}]

(* The loop of lines 71-136, one round per project path.  ws holds the    *)
(* two maps and the open watchers.                                        *)
RECURSIVE resolveWatches(_, _, _)
resolveWatches(ws, lintState, project) ==
  IF project = <<>>
    THEN [results |-> <<>>, ws |-> ws, err |-> ""]
    ELSE LET tsconfigPath == Head(project)
         IN IF WatchHas(ws.known, tsconfigPath)
              THEN LET existingWatch ==
                         getProgram(WatchGet(ws.known, tsconfigPath), lintState)
                       rest == resolveWatches(
                                 [ws EXCEPT !.known =
                                    {e \in @ : e.path # tsconfigPath}
                                      \cup {existingWatch}],
                                 lintState, Tail(project))
                   IN [results |-> <<existingWatch.program>> \o rest.results,
                       ws |-> rest.ws, err |-> rest.err]
              ELSE IF readTSConfigText(tsconfigPath) = "null"
                THEN [results |-> <<>>, ws |-> ws,
                      err |-> "Cannot read file '" \o tsconfigPath \o "'."]
                ELSE LET programWatch ==
                           createWatchProgram(tsconfigPath, lintState)
                         watched ==
                           [ws EXCEPT
                              !.callbacks =
                                watchFiles(@, fileNames(tsconfigPath),
                                           tsconfigPath),
                              !.watchers =
                                @ \cup {[fileName |-> f, watch |-> tsconfigPath] :
                                          f \in fileNames(tsconfigPath)}]
                         configFileDiagnostics ==
                           parseTSCommandLine(
                             tsconfigPath,
                             readTSConfigText(tsconfigPath)).errors
                         rest == resolveWatches(
                                   [watched EXCEPT
                                      !.known = @ \cup {programWatch}],
                                   lintState, Tail(project))
                     IN IF configFileDiagnostics # <<>>
                          THEN [results |-> <<>>, ws |-> watched,
                                err |-> configFileDiagnostics[1]]
                          ELSE [results |-> <<programWatch.program>>
                                              \o rest.results,
                                ws |-> rest.ws, err |-> rest.err]

(* calculateProjectParserOptions of lib/tsconfig-parser.js, lines 56-139 *)
watchingCalculateProjectParserOptions(ws, code, options, project) ==
  LET lintState == [code |-> TextOf(code), filePath |-> options.filePath]
      registered == {c \in ws.callbacks : c.fileName = options.filePath}
      notified == {c.callback : c \in registered}
      marked == IF registered = {}
                  THEN ws.known
                  ELSE watchCallback(ws.known,
                                     (CHOOSE c \in registered : TRUE).callback,
                                     options.filePath)
      resolved == resolveWatches([ws EXCEPT !.known = marked], lintState,
                                 project)
  IN [results |-> resolved.results, ws |-> resolved.ws, err |-> resolved.err,
      lintState |-> lintState, notified |-> notified]

----------------------------------------------------------------------------
(* parser.js *)

Functions == {"loggerFn"}

UndefinedExtra ==
  [tokens |-> "undefined", range |-> "undefined", loc |-> "undefined",
   comment |-> "undefined", jsx |-> "undefined",
   errorOnUnknownASTType |-> "undefined", useJSXTextNode |-> "undefined",
   log |-> "undefined", project |-> <<>>]

(* A variant that keeps the context of the call before *)
keepExtra == extra

(* resetExtra, lines 33-48 *)
resetExtra ==
  [tokens |-> "null", range |-> "false", loc |-> "false",
   comment |-> "false", jsx |-> "undefined",
   errorOnUnknownASTType |-> "undefined", useJSXTextNode |-> "false",
   log |-> "console.log", project |-> <<>>]

isTrue(v) == v = "true"

(* generateAST, lines 154-209: the context is reset, then the options,    *)
(* if any were given, are written over it                                  *)
applyOptions(options) ==
  IF ~options.given
    THEN resetExtra
    ELSE
  [tokens |-> IF isTrue(options.tokens) THEN "[]" ELSE resetExtra.tokens,
   range |-> Bool(isTrue(options.range)),
   loc |-> Bool(isTrue(options.loc)),
   comment |-> IF isTrue(options.comment) THEN "true" ELSE resetExtra.comment,
   jsx |-> IF options.ecmaFeatures = "object"
             THEN options.jsx
             ELSE resetExtra.jsx,
   errorOnUnknownASTType |->
     IF Truthy(options.errorOnUnknownASTType)
       THEN "true"
       ELSE resetExtra.errorOnUnknownASTType,
   useJSXTextNode |-> IF isTrue(options.useJSXTextNode)
                        THEN "true"
                        ELSE resetExtra.useJSXTextNode,
   log |-> IF options.loggerFn \in Functions
             THEN options.loggerFn
             ELSE IF options.loggerFn = "false"
               THEN "Function.prototype"
               ELSE resetExtra.log,
   project |-> options.project]

(* A variant that does not look at the flag *)
shouldWarnWheneverUnsupported(supported, warned) == ~supported

(* line 211 *)
shouldWarnAboutTSVersion(supported, warned) == ~supported /\ ~warned

(* line 226 *)
shouldProvideParserServices(extraArg) == Len(extraArg.project) > 0

(* createNewProgram, lines 69-122 *)
FILENAME(extraArg) ==
  IF Truthy(extraArg.jsx) THEN "estree.tsx" ELSE "estree.ts"

createNewProgram(code, extraArg) ==
  [configPath |-> "",
   sourceFiles |-> (FILENAME(extraArg) :> createSourceFile(code))]

(* program.getSourceFile(filePath) is defined *)
hasSourceFile(program, filePath) == filePath \in DOMAIN program.sourceFiles

(* A variant that takes the last program that has the file *)
lastDefined(programs, filePath) ==
  LET hits == {i \in 1..Len(programs) : hasSourceFile(programs[i], filePath)}
  IN IF hits = {}
       THEN 0
       ELSE CHOOSE i \in hits : \A j \in hits : i >= j

(* getASTFromProject, lines 55-63: the first program that has the file *)
firstDefined(programs, filePath) ==
  LET hits == {i \in 1..Len(programs) : hasSourceFile(programs[i], filePath)}
  IN IF hits = {}
       THEN 0
       ELSE CHOOSE i \in hits : \A j \in hits : i <= j

(* The converter module as parser.js requires it: called with (ast, extra), *)
(* it builds the service maps when the context holds project paths          *)
convertWithExtra(sourceFile, extraArg) ==
  astConverter(sourceFile, extraArg, Bool(Len(extraArg.project) > 0))

(* A variant that hands out the program and the maps of every call *)
servicesOfEveryCall(provide, program, run) ==
  [program |-> program.configPath,
   esTreeNodeToTSNodeMap |-> run.called,
   tsNodeToESTreeNodeMap |-> run.called]

(* lines 235-241 and parse, lines 250-260: what the caller receives *)
servicesOf(provide, program, run) ==
  [program |-> IF provide THEN program.configPath ELSE "undefined",
   esTreeNodeToTSNodeMap |-> provide /\ run.astMaps,
   tsNodeToESTreeNodeMap |-> provide /\ run.astMaps]

(* A variant that hands out the first program of the project when no    *)
(* program has the file                                                  *)
getProgramOfProjectAndAST(programs, code, options, provide, extraArg) ==
  IF provide /\ programs # <<>>
    THEN [program |-> programs[1], ast |-> createSourceFile(code),
          fileName |-> FILENAME(extraArg), fromProject |-> FALSE]
    ELSE [program |-> createNewProgram(code, extraArg),
          ast |-> createSourceFile(code),
          fileName |-> FILENAME(extraArg), fromProject |-> FALSE]

(* getProgramAndAST, lines 130-135 *)
getProgramAndAST(programs, code, options, provide, extraArg) ==
  IF provide /\ firstDefined(programs, options.filePath) > 0
    THEN [program |-> programs[firstDefined(programs, options.filePath)],
          ast |-> programs[firstDefined(programs, options.filePath)]
                    .sourceFiles[options.filePath],
          fileName |-> options.filePath, fromProject |-> TRUE]
    ELSE [program |-> createNewProgram(code, extraArg),
          ast |-> createNewProgram(code, extraArg)
                    .sourceFiles[FILENAME(extraArg)],
          fileName |-> FILENAME(extraArg), fromProject |-> FALSE]

(* The source file object of a cached program is the object the converter  *)
(* was handed: what the converter wrote to the tree is in the cache        *)
shareSourceFile(cache, program, fileName, ast) ==
  {IF e.program.configPath = program.configPath
     THEN [e EXCEPT !.program.sourceFiles[fileName].ast = ast]
     ELSE e : e \in cache}

(* generateAST, lines 226-241: what follows the version warning, with   *)
(* the context the module holds by then                                  *)
generateASTAfterWarning(cache, code, options, extra1) ==
  With(IF shouldProvideParserServices(extra1)
         THEN calculateProjectParserOptions(cache, code, options,
                                            extra1.project)
         ELSE [results |-> <<>>, cache |-> cache, err |-> ""],
       LAMBDA resolved :
    IF resolved.err # ""
      THEN [extra |-> extra1, cache |-> resolved.cache, converted |-> FALSE,
            run |-> NoRun, error |-> resolved.err, estree |-> NullT,
            services |->
              servicesOf(FALSE, createNewProgram(code, extra1), NoRun),
            cached |-> FALSE, programs |-> <<>>]
      ELSE
  With(getProgramAndAST(resolved.results, code, options,
                        shouldProvideParserServices(extra1), extra1),
       LAMBDA found :
  With(convertWithExtra(found.ast, extra1), LAMBDA run :
    [extra |-> extra1,
     cache |-> IF found.fromProject
                 THEN shareSourceFile(resolved.cache, found.program,
                                      found.fileName, run.ast)
                 ELSE resolved.cache,
     converted |-> TRUE, run |-> run, error |-> run.err,
     estree |-> run.estree,
     services |-> IF run.err = ""
                    THEN servicesOf(shouldProvideParserServices(extra1),
                                    found.program, run)
                    ELSE servicesOf(FALSE, found.program, NoRun),
     cached |-> found.fromProject
                  /\ \E e \in cache : e.program = found.program,
     programs |-> resolved.results])))

(* generateAST, lines 147-242, from the options to the returned object *)
generateAST(cache, code, options) ==
  generateASTAfterWarning(cache, code, options, applyOptions(options))

----------------------------------------------------------------------------
(* The inputs of the model *)

Id(name) == Identifier(name)
Stmt(e) == ExpressionStatement(e)
ArrayOf(e) == ArrayLiteralExpression(<<e>>)
ObjectOf(property) == ObjectLiteralExpression(<<property>>)
NumberType == KeywordType("NumberKeyword", "number")
StringType == KeywordType("StringKeyword", "string")

(* Expressions that contain array and object literals in every position    *)
(* the classifier tells apart                                              *)
Operands ==
  {Id("a"), NumericLiteral("1"),
   ArrayOf(Id("a")), ArrayOf(ArrayOf(Id("a"))),
   ArrayLiteralExpression(<<ArrayOf(Id("a")), ArrayOf(Id("b"))>>),
   ArrayOf(BinaryExpression(Id("a"), "=", NumericLiteral("1"))),
   ParenthesizedExpression(ArrayOf(Id("a"))),
   ParenthesizedExpression(Id("a")),
   ObjectOf(ShorthandPropertyAssignment(Id("a"), NoNode)),
   ObjectOf(ShorthandPropertyAssignment(Id("a"), NumericLiteral("1"))),
   ObjectOf(PropertyAssignment(Id("k"), ArrayOf(Id("a")))),
   ObjectOf(PropertyAssignment(Id("k"), ObjectLiteralExpression(<<>>))),
   ObjectOf(PropertyAssignment(ComputedPropertyName(Id("k")), Id("a"))),
   ObjectOf(PropertyAssignment(StringLiteral("'&lt;'"), StringLiteral("'&lt;'"))),
   CallExpression(Id("f"), <<ArrayOf(Id("a"))>>),
   CallExpression(Id("f"), <<ObjectOf(ShorthandPropertyAssignment(Id("a"), NoNode))>>),
   JsxSelfClosingElement(Id("a")),
   AsExpression(Id("a"), NumberType),
   AsExpression(Id("a"), ThisType)}

Operators == {"=", "+=", "+", "&&", ","}

ClassifierStatements ==
  {Stmt(BinaryExpression(l, op, r)) : l \in Operands, op \in Operators,
                                        r \in Operands}
    \cup {ForOfStatement(l, r, Block(<<>>)) : l \in Operands, r \in Operands}
    \cup {ForInStatement(l, r, Block(<<>>)) : l \in Operands, r \in Operands}
    \cup {VariableStatement(VariableDeclarationList(
            <<VariableDeclaration(Id("x"), t, i)>>)) :
            t \in {NoNode, NumberType, ThisType},
            i \in Operands \cup {NoNode}}
    \cup {Stmt(e) : e \in Operands}
    \cup {NotEmittedStatement}

(* Chains of comma operators, with and without parentheses *)
Comma(l, r) == BinaryExpression(l, ",", r)

CommaStatements ==
  {Stmt(Comma(Comma(Id("a"), Id("b")), Id("c"))),
   Stmt(Comma(Comma(Comma(Id("a"), Id("b")), Id("c")), Id("d"))),
   Stmt(Comma(Id("a"), ParenthesizedExpression(Comma(Id("b"), Id("c"))))),
   Stmt(Comma(ParenthesizedExpression(Comma(Id("a"), Id("b"))),
              ParenthesizedExpression(Comma(Id("c"), Id("d"))))),
   Stmt(Comma(ArrayOf(Comma(Id("a"), Id("b"))), Id("c")))}

(* Spread elements and spread assignments on each side of each operator,  *)
(* without an enclosing binary expression, nested and as a call argument   *)
SpreadLiterals ==
  {ArrayOf(SpreadElement(Id("a"))), ObjectOf(SpreadAssignment(Id("a")))}

SpreadStatements ==
  {Stmt(BinaryExpression(l, op, Id("b"))) :
     l \in SpreadLiterals, op \in {"=", "+=", "+", ","}}
    \cup {Stmt(BinaryExpression(Id("b"), op, r)) :
            r \in SpreadLiterals, op \in {"=", "+"}}
    \cup {Stmt(l) : l \in SpreadLiterals}
    \cup {Stmt(BinaryExpression(ArrayOf(l), "=", Id("b"))) : l \in SpreadLiterals}
    \cup {Stmt(CallExpression(Id("f"), <<SpreadElement(Id("a"))>>)),
          Stmt(BinaryExpression(
                 Id("b"), "=", CallExpression(Id("f"), <<SpreadElement(Id("a"))>>)))}

(* Parameters in every shape the parameter rule tells apart *)
ParameterFlags ==
  {{}, {"dotDotDot"}, {"question"}, {"public"}, {"public", "readonly"}}

Parameters ==
  {Parameter(flags, decorators, name, type, initializer) :
     flags \in ParameterFlags,
     decorators \in {<<>>, <<Decorator(Id("d"))>>},
     name \in {Id("a"), ParenthesizedExpression(Id("a"))},
     type \in {NoNode, NumberType},
     initializer \in {NoNode, NumericLiteral("1")}}

FunctionStatements ==
  {Stmt(ArrowFunction(<<param>>, body)) :
     param \in Parameters,
     body \in {Id("a"), Block(<<Stmt(StringLiteral("'u'")),
                                Stmt(StringLiteral("'u'"))>>)}}

(* Classes with every combination of heritage clauses *)
TypeArguments == {<<>>, <<NumberType>>, <<NumberType, NumberType>>}

HeritageTypes ==
  {ExpressionWithTypeArguments(Id(name), args) :
     name \in {"B"}, args \in TypeArguments}

ExtendsClauses ==
  {<<>>}
    \cup {<<HeritageClause("extends", <<t>>)>> : t \in HeritageTypes}
    \cup {<<HeritageClause("extends", <<t, u>>)>> :
            t \in HeritageTypes, u \in HeritageTypes}

ImplementsClauses ==
  {<<>>}
    \cup {<<HeritageClause("implements", <<t>>)>> : t \in HeritageTypes}
    \cup {<<HeritageClause("implements", <<t, u>>)>> :
            t \in HeritageTypes, u \in HeritageTypes}

ClassStatements ==
  {ClassDeclaration(Id("C"), e \o i) :
     e \in ExtendsClauses, i \in ImplementsClauses}

(* Type-argument lists: empty, with a space before the closing angle      *)
(* bracket, on a type reference and on the type a class extends            *)
TypeArgumentLists ==
  {<<>>, <<NumberType>>, <<NumberType, StringType>>,
   <<TypeReference(Id("U"), <<NumberType>>)>>}

TypeArgumentHolders ==
  {holder : holder \in
     UNION {{TypeReference(Id("T"), args),
             ExpressionWithTypeArguments(Id("B"), args),
             EmptyTypeArguments(TypeReference(Id("T"), <<>>)),
             EmptyTypeArguments(ExpressionWithTypeArguments(Id("B"), <<>>))} :
            args \in TypeArgumentLists}}

Spacings(holder) ==
  IF hasTypeArguments(holder) THEN {holder, Spaced(holder)} ELSE {holder}

TypeArgumentStatements ==
  UNION {IF holder.kind = "TypeReference"
           THEN {VariableStatement(VariableDeclarationList(
                   <<VariableDeclaration(Id("a"), t, NoNode)>>)) :
                   t \in Spacings(holder)}
           ELSE {ClassDeclaration(Id("C"), <<HeritageClause("extends", <<t>>)>>) :
                   t \in Spacings(holder)}
         : holder \in TypeArgumentHolders}

(* Bodies of string literal statements, up to MaxBody statements long *)
DirectiveStatements ==
  {Stmt(StringLiteral("'u'")), Stmt(StringLiteral("'v'")),
   Stmt(StringLiteral("''")), Stmt(Id("a")),
   Stmt(ParenthesizedExpression(StringLiteral("'u'")))}

Bodies == UNION {[1..n -> DirectiveStatements] : n \in 0..MaxBody}

(* Statements the parser reports a diagnostic for *)
MalformedStatements == {Stmt(StringLiteral("'u")), Stmt(NumericLiteral("1a"))}

MalformedBodies ==
  {<<m>> : m \in MalformedStatements}
    \cup {<<m, n>> : m \in MalformedStatements \cup {Stmt(Id("a"))},
                     n \in MalformedStatements}

Sources ==
  {SourceFile(<<s>>) :
     s \in ClassifierStatements \cup FunctionStatements \cup ClassStatements
             \cup CommaStatements \cup SpreadStatements
             \cup TypeArgumentStatements}
    \cup {SourceFile(body) : body \in MalformedBodies}
    \cup {SourceFile(body) : body \in Bodies}
    \cup {SourceFile(<<Block(body)>>) : body \in Bodies}

ConverterExtras ==
  {[resetExtra EXCEPT !.errorOnUnknownASTType = e] : e \in {"undefined", "true"}}

ParseOption(loggerFn, project, filePath) ==
  [given |-> TRUE,
   range |-> "undefined", loc |-> "undefined", tokens |-> "undefined",
   comment |-> "undefined", ecmaFeatures |-> "object", jsx |-> "true",
   errorOnUnknownASTType |-> "undefined", useJSXTextNode |-> "undefined",
   loggerFn |-> loggerFn, project |-> project, filePath |-> filePath]

(* parse(code): the options argument is omitted *)
OmittedOptions ==
  [given |-> FALSE,
   range |-> "undefined", loc |-> "undefined", tokens |-> "undefined",
   comment |-> "undefined", ecmaFeatures |-> "undefined", jsx |-> "undefined",
   errorOnUnknownASTType |-> "undefined", useJSXTextNode |-> "undefined",
   loggerFn |-> "undefined", project |-> <<>>, filePath |-> "undefined"]

(* Every flag is passed as the value v *)
FlagOptions(v, loggerFn) ==
  [ParseOption(loggerFn, <<>>, ProjectFile) EXCEPT
     !.range = v, !.loc = v, !.tokens = v, !.comment = v, !.jsx = v,
     !.useJSXTextNode = v, !.errorOnUnknownASTType = v]

(* The calls of parse.  Without a project: every log sink, the options    *)
(* omitted, and every flag as true, as the number 1 and as the string      *)
(* 'true', with a false-y log sink each.  With a project: a file of the    *)
(* project and a file outside it, two tsconfigs in both orders, and        *)
(* tsconfigs that cannot be read.                                          *)
PlainCode == SourceFile(<<Stmt(Id("a"))>>)

(* The calls of the watching resolver: two texts for the file being      *)
(* linted, a file of both projects and a file of one, and project lists   *)
(* with a tsconfig that cannot be resolved                                 *)
LintInputs ==
  {<<code, filePath, project>> :
     code \in LintCodes,
     filePath \in {ProjectFile},
     project \in {<<"tsconfig.json">>,
                  <<"tsconfig.json", "tsconfig.b.json">>,
                  <<"tsconfig.json", "badTSConfig/tsconfig.json",
                    "tsconfig.b.json">>}}
    \cup {<<PlainCode, "b.tsx", <<"tsconfig.json", "tsconfig.b.json">> >>,
          <<PlainCode, ProjectFile, <<".", "tsconfig.json">> >>}

ParseInputs ==
  {<<PlainCode, ParseOption(l, <<>>, ProjectFile)>> :
     l \in {"undefined", "false", "loggerFn"}}
    \cup {<<SourceFile(<<Stmt(ParenthesizedExpression(Id("a")))>>),
            ParseOption("undefined", <<>>, ProjectFile)>>,
          <<SourceFile(<<Stmt(JsxSelfClosingElement(Id("a")))>>),
            ParseOption("undefined", <<"tsconfig.json">>, ProjectFile)>>,
          <<PlainCode, OmittedOptions>>,
          <<PlainCode, FlagOptions("true", "null")>>,
          <<PlainCode, FlagOptions("1", "0")>>,
          <<PlainCode, FlagOptions("'true'", "")>>}
    \cup {<<PlainCode, ParseOption("undefined", <<"tsconfig.json">>, f)>> :
            f \in {ProjectFile, "b.tsx"}}
    \cup {<<PlainCode, ParseOption("undefined", project, f)>> :
            project \in {<<"tsconfig.json", "tsconfig.b.json">>,
                         <<"tsconfig.b.json", "tsconfig.json">>},
            f \in {ProjectFile, "b.tsx"}}
    \cup {<<PlainCode, ParseOption("undefined", <<"tsconfig.b.json">>, "b.tsx")>>}
    \cup {<<PlainCode, ParseOption("false", project, ProjectFile)>> :
            project \in {<<"missing.json">>, <<".">>,
                         <<"tsconfig.json", "badTSConfig/tsconfig.json">>,
                         <<"tsconfig.b.json", "badTSConfig/tsconfig.json",
                           "tsconfig.json">>}}

(* The calls of parse that a log sink of the caller may make itself:    *)
(* with and without a log sink, with other flags, another text, and in   *)
(* service mode                                                          *)
ReentrantInputs ==
  {<<PlainCode, ParseOption(l, <<>>, ProjectFile)>> :
     l \in {"undefined", "false", "loggerFn"}}
    \cup {<<SourceFile(<<Stmt(Id("b"))>>),
            [ParseOption("loggerFn", <<>>, ProjectFile) EXCEPT
               !.range = "true", !.loc = "true"]>>,
          <<SourceFile(<<Stmt(JsxSelfClosingElement(Id("a")))>>),
            ParseOption("loggerFn", <<"tsconfig.json">>, ProjectFile)>>,
          <<PlainCode, OmittedOptions>>}

----------------------------------------------------------------------------
(* The state machine *)

Init ==
  /\ isRunningSupportedTypeScriptVersion \in BOOLEAN
  /\ warnedAboutTSVersion = FALSE
  /\ extra = UndefinedExtra
  /\ programCache = {}
  /\ logCalls = <<>>
  /\ calls = <<>>
  /\ conv = NoRun
  /\ knownWatchProgramMap = {}
  /\ watchCallbackTrackingMap = {}
  /\ currentLintOperationState = [code |-> "", filePath |-> ""]
  /\ fileWatchers = {}
  /\ lints = <<>>
  /\ frames = <<>>

(* exports.parse(code, options): generateAST, lines 147-242, and the       *)
(* wrapper, lines 250-260.  The warning is logged before the flag is set   *)
(* and before anything that can throw; the context and the program cache   *)
(* keep what was written to them before an error.                          *)
Parse(code, options) ==
  \E out \in {generateAST(programCache, code, options)} :
    /\ Len(calls) < MaxCalls
    /\ extra' = out.extra
    /\ logCalls' =
         IF shouldWarnAboutTSVersion(isRunningSupportedTypeScriptVersion,
                                     warnedAboutTSVersion)
           THEN Append(logCalls,
                       [sink |-> out.extra.log, message |-> "versionWarning",
                        call |-> Len(calls) + 1])
           ELSE logCalls
    /\ warnedAboutTSVersion' =
         (warnedAboutTSVersion
            \/ shouldWarnAboutTSVersion(isRunningSupportedTypeScriptVersion,
                                        warnedAboutTSVersion))
    /\ programCache' = out.cache
    /\ conv' = IF out.converted THEN out.run ELSE conv
    /\ calls' = Append(calls,
                       [code |-> code, options |-> options,
                        error |-> out.error, ast |-> out.estree,
                        services |-> out.services, cached |-> out.cached,
                        programs |-> out.programs, extra |-> out.extra,
                        source |-> IF out.converted THEN out.run.before
                                                    ELSE NoNode])
    /\ UNCHANGED <<isRunningSupportedTypeScriptVersion, watchVars, frames>>

Next == \E input \in ParseInputs : Parse(input[1], input[2])

Spec == Init /\ [][Next]_vars

(* One run of the converter on a tree, as an embedder of the module makes it *)
ConvertAll(code, extraArg, provide) ==
  /\ ~conv.called
  /\ conv' = astConverter(createSourceFile(code), extraArg, provide)
  /\ UNCHANGED <<isRunningSupportedTypeScriptVersion, warnedAboutTSVersion,
                 extra, programCache, logCalls, calls, watchVars, frames>>

ConverterInit == Init /\ isRunningSupportedTypeScriptVersion

ConverterNext ==
  \E code \in Sources, extraArg \in ConverterExtras,
     provide \in {"true", "false"} : ConvertAll(code, extraArg, provide)

ConverterSpec == ConverterInit /\ [][ConverterNext]_vars

(* One call of the watching resolver, as parser.js makes it for a parse   *)
(* call in service mode                                                    *)
Lint(code, filePath, project) ==
  \E out \in {watchingCalculateProjectParserOptions(
                [known |-> knownWatchProgramMap,
                 callbacks |-> watchCallbackTrackingMap,
                 watchers |-> fileWatchers],
                code, [filePath |-> filePath], project)} :
    /\ Len(lints) < MaxCalls
    /\ knownWatchProgramMap' = out.ws.known
    /\ watchCallbackTrackingMap' = out.ws.callbacks
    /\ fileWatchers' = out.ws.watchers
    /\ currentLintOperationState' = out.lintState
    /\ lints' = Append(lints,
                       [code |-> code, filePath |-> filePath,
                        project |-> project, results |-> out.results,
                        error |-> out.err, notified |-> out.notified,
                        known |-> {e.path : e \in knownWatchProgramMap},
                        watchers |-> fileWatchers])
    /\ UNCHANGED <<isRunningSupportedTypeScriptVersion, warnedAboutTSVersion,
                   extra, programCache, logCalls, calls, conv, frames>>

(* TypeScript closes a watcher that watchFile returned *)
CloseWatcher(watcher) ==
  /\ watcher \in fileWatchers
  /\ watchCallbackTrackingMap' = close(watchCallbackTrackingMap,
                                       watcher.fileName)
  /\ fileWatchers' = fileWatchers \ {watcher}
  /\ UNCHANGED <<isRunningSupportedTypeScriptVersion, warnedAboutTSVersion,
                 extra, programCache, logCalls, calls, conv, frames,
                 knownWatchProgramMap, currentLintOperationState, lints>>

WatchNext ==
  \/ \E input \in LintInputs : Lint(input[1], input[2], input[3])
  \/ \E watcher \in fileWatchers : CloseWatcher(watcher)

(* A parse call in two steps, for a log sink that is a function of the  *)
(* caller and calls parse itself.  BeginParse is generateAST up to the   *)
(* call of extra.log, line 222; a call that does not warn, or whose sink *)
(* is not a function of the caller, cannot be entered again and ends     *)
(* in the same step.                                                     *)
BeginParse(code, options) ==
  /\ Len(calls) + Len(frames) < MaxCalls
  /\ shouldWarnAboutTSVersion(isRunningSupportedTypeScriptVersion,
                              warnedAboutTSVersion)
  /\ applyOptions(options).log \in Functions
  /\ extra' = applyOptions(options)
  /\ logCalls' = Append(logCalls,
                        [sink |-> applyOptions(options).log,
                         message |-> "versionWarning",
                         call |-> Len(calls) + Len(frames) + 1])
  /\ frames' = <<[code |-> code, options |-> options]>> \o frames
  /\ UNCHANGED <<isRunningSupportedTypeScriptVersion, warnedAboutTSVersion,
                 programCache, calls, conv, watchVars>>

(* The log sink returns: line 223 sets the flag, lines 226-241 convert   *)
(* with the context the module holds at that time                        *)
EndParse ==
  /\ frames # <<>>
  /\ \E out \in {generateASTAfterWarning(programCache, Head(frames).code,
                                          Head(frames).options, extra)} :
       /\ warnedAboutTSVersion' = TRUE
       /\ extra' = out.extra
       /\ programCache' = out.cache
       /\ conv' = IF out.converted THEN out.run ELSE conv
       /\ calls' = Append(calls,
                          [code |-> Head(frames).code,
                           options |-> Head(frames).options,
                           error |-> out.error, ast |-> out.estree,
                           services |-> out.services, cached |-> out.cached,
                           programs |-> out.programs, extra |-> out.extra,
                           source |-> IF out.converted THEN out.run.before
                                                       ELSE NoNode])
  /\ frames' = Tail(frames)
  /\ UNCHANGED <<isRunningSupportedTypeScriptVersion, logCalls, watchVars>>

(* A call that cannot be entered again is made in one step, while no     *)
(* call is running or from the log sink of the call that is running      *)
ParseInOneStep(code, options) ==
  /\ ~(/\ shouldWarnAboutTSVersion(isRunningSupportedTypeScriptVersion,
                                    warnedAboutTSVersion)
        /\ applyOptions(options).log \in Functions)
  /\ Len(calls) + Len(frames) < MaxCalls
  /\ Parse(code, options)

ReentrantNext ==
  \/ \E input \in ReentrantInputs : BeginParse(input[1], input[2])
  \/ \E input \in ReentrantInputs : ParseInOneStep(input[1], input[2])
  \/ EndParse

ReentrantSpec == Init /\ [][ReentrantNext]_vars

WatchInit == Init /\ isRunningSupportedTypeScriptVersion

WatchSpec == WatchInit /\ [][WatchNext]_vars

----------------------------------------------------------------------------
(* Properties *)

(* The calls that returned, and the calls made in service mode *)
Returned(i) == calls[i].error = ""
ServiceMode(i) == Len(calls[i].options.project) > 0

(* C1: after a conversion in service mode, for every target node t that   *)
(* the converter returned for a native node n, tsNodeToESTreeNodeMap      *)
(* holds t for n and esTreeNodeToTSNodeMap holds n for t, for every       *)
(* native kind, the rules that return the result of converting another    *)
(* node and the self-closing JSX rule included.                           *)
C1_MapsAreInverse ==
  (conv.called /\ conv.err = "" /\ conv.shouldProvideParserServices)
    => \A e \in conv.returned :
         /\ <<e[1], e[2]>> \in conv.tsNodeToESTreeNodeMap
         /\ <<e[2], e[1]>> \in conv.esTreeNodeToTSNodeMap

ReadByParent == {"HeritageClause", "ExpressionWithTypeArguments", "Decorator"}

FallbackPaths(ast) ==
  {p \in PathsOf(ast, <<>>) :
     /\ Present(At(ast, p))
     /\ At(ast, p).kind \notin RuleKinds \cup ReadByParent}

(* C4: for a native node whose kind has no rule: with                      *)
(* errorOnUnknownASTType set, conversion throws iff the tag "TS" + kind is *)
(* no member of AST_NODE_TYPES; with the flag unset, conversion never      *)
(* throws for that reason and returns a node whose type is "TS" + kind.    *)
C4_UnknownKindFallback ==
  conv.called =>
    IF conv.errorOnUnknownASTType
      THEN (conv.err = "Unknown AST_NODE_TYPE")
             <=> \E p \in FallbackPaths(conv.before) :
                   ("TS" \o At(conv.before, p).kind) \notin AST_NODE_TYPES
      ELSE /\ conv.err # "Unknown AST_NODE_TYPE"
           /\ conv.err = "" =>
                \A p \in FallbackPaths(conv.before) :
                  \E e \in conv.returned, t \in NodesOf(conv.estree) :
                    /\ e[1] = p
                    /\ t.id = e[2]
                    /\ t.type = "TS" \o At(conv.before, p).kind

(* Strict mode met a kind whose tag is no member, and threw *)
C4_Witness ==
  /\ conv.called
  /\ conv.errorOnUnknownASTType
  /\ conv.err = "Unknown AST_NODE_TYPE"
  /\ \E p \in FallbackPaths(conv.before) :
       At(conv.before, p).kind = "NotEmittedStatement"

(* The bodies of the containers that support directives: the program and   *)
(* the block bodies of functions                                           *)
DirectiveBodies(tree) ==
  {FieldOf(t.sub, "body") : t \in {u \in NodesOf(tree) : u.type = "Program"}}
    \cup {FieldOf(Field(t, "body").sub, "body") :
            t \in {u \in NodesOf(tree) :
                     /\ u.type = "ArrowFunctionExpression"
                     /\ Field(u, "body").type = "BlockStatement"}}

IsStringStatement(s) ==
  /\ s.type = "ExpressionStatement"
  /\ IsNode(Field(s, "expression"))
  /\ Field(s, "expression").type = "Literal"
  /\ Attr(Field(s, "expression"), "typeof") = "string"

RawOf(s) == Attr(Field(s, "expression"), "raw")

C6_SameSourceSameTree ==
  \A i, j \in 1..Len(calls) :
    (/\ Returned(i) /\ Returned(j)
     /\ calls[i].code = calls[j].code
     /\ calls[i].options = calls[j].options)
      => Plain(calls[i].ast) = Plain(calls[j].ast)

(* C7: conversion leaves its input as it was: after convertAll returned,   *)
(* every native node has the kind and the fields it had before the call,   *)
(* JsxSelfClosingElement included.                                         *)
C7_InputUnchanged == conv.called => conv.ast = conv.before

(* C8: the range of every produced node lies inside the range of the       *)
(* produced node that holds it as a field, the type parameters of a        *)
(* ClassImplements node, the decorators of a converted parameter and the   *)
(* type annotation of an identifier included.                              *)
C8_RangeInsideHolder ==
  (conv.called /\ conv.err = "") =>
    \A t \in NodesOf(conv.estree) :
      \A i \in 1..Len(t.sub) :
        IsNode(t.sub[i][2]) =>
          /\ t.range[1] <= t.sub[i][2].range[1]
          /\ t.sub[i][2].range[1] <= t.sub[i][2].range[2]
          /\ t.sub[i][2].range[2] <= t.range[2]

(* The positions the claims about literals name.  A literal is in the      *)
(* left-hand operand of an assignment when it is that operand or is        *)
(* nested in it through literals only.                                     *)
LiteralStructure ==
  {"ArrayLiteralExpression", "ObjectLiteralExpression", "PropertyAssignment",
   "ShorthandPropertyAssignment", "ParenthesizedExpression"}

IsAssignmentTarget(ast, p) ==
  \E k \in 1..Len(p) :
    /\ At(ast, SubSeq(p, 1, k - 1)).kind = "BinaryExpression"
    /\ At(ast, SubSeq(p, 1, k - 1)).text \in AssignmentOperators
    /\ p[k] = 1
    /\ \A m \in k..(Len(p) - 1) :
         At(ast, SubSeq(p, 1, m)).kind \in LiteralStructure

IsIterationTarget(ast, p) ==
  /\ p # <<>>
  /\ At(ast, ParentOf(p)).kind \in {"ForInStatement", "ForOfStatement"}
  /\ p[Len(p)] = 1

ConvertedTypes(p) ==
  {t.type : t \in {u \in NodesOf(conv.estree) : <<p, u.id>> \in conv.returned}}

(* C9: an array literal converts to ArrayPattern iff it is the left-hand   *)
(* operand of an assignment (directly or nested in it) or the iteration    *)
(* target of a for-in / for-of statement; in every other position (the     *)
(* iterated expression of a for-in / for-of included) it converts to       *)
(* ArrayExpression.                                                        *)
C9_ArrayPatternIffTarget ==
  (conv.called /\ conv.err = "") =>
    \A p \in PathsOf(conv.before, <<>>) :
      At(conv.before, p).kind = "ArrayLiteralExpression" =>
        ConvertedTypes(p) =
          IF IsAssignmentTarget(conv.before, p)
               \/ IsIterationTarget(conv.before, p)
            THEN {"ArrayPattern"}
            ELSE {"ArrayExpression"}

(* C10: an object literal converts to ObjectPattern iff it is the          *)
(* left-hand operand of an assignment, whatever the assignment operator,   *)
(* or the iteration target of a for-in / for-of statement, and to          *)
(* ObjectExpression otherwise.                                             *)
C10_ObjectPatternIffTarget ==
  (conv.called /\ conv.err = "") =>
    \A p \in PathsOf(conv.before, <<>>) :
      At(conv.before, p).kind = "ObjectLiteralExpression" =>
        ConvertedTypes(p) =
          IF IsAssignmentTarget(conv.before, p)
               \/ IsIterationTarget(conv.before, p)
            THEN {"ObjectPattern"}
            ELSE {"ObjectExpression"}

(* The literals that are directly an argument of a call *)
IsCallArgument(ast, p) ==
  /\ p # <<>>
  /\ At(ast, ParentOf(p)).kind = "CallExpression"
  /\ p[Len(p)] >= 2

(* C11: an array or object literal that is directly an argument of a call  *)
(* converts to ArrayExpression / ObjectExpression and never to a pattern,  *)
(* whatever encloses the call, a call that is the left-hand or the         *)
(* right-hand part of an assignment included.                              *)
C11_CallArgumentIsExpression ==
  (conv.called /\ conv.err = "") =>
    \A p \in PathsOf(conv.before, <<>>) :
      IsCallArgument(conv.before, p) =>
        /\ At(conv.before, p).kind = "ArrayLiteralExpression"
             => ConvertedTypes(p) = {"ArrayExpression"}
        /\ At(conv.before, p).kind = "ObjectLiteralExpression"
             => ConvertedTypes(p) = {"ObjectExpression"}

(* A call with an object literal argument is the left-hand operand of `=`  *)
(* and the argument was converted to an ObjectExpression                   *)
C11_Witness ==
  /\ conv.called /\ conv.err = ""
  /\ \E p \in PathsOf(conv.before, <<>>) :
       /\ IsCallArgument(conv.before, p)
       /\ At(conv.before, p).kind = "ObjectLiteralExpression"
       /\ Len(p) = 4
       /\ At(conv.before, SubSeq(p, 1, 2)).kind = "BinaryExpression"
       /\ At(conv.before, SubSeq(p, 1, 2)).text = "="
       /\ p[3] = 1
       /\ ConvertedTypes(p) = {"ObjectExpression"}

(* C12: if the tree root carries a parse diagnostic, the exported function *)
(* throws the error of the first diagnostic before anything is converted:  *)
(* no target node is produced and no entry of the two maps is written.     *)
C12_DiagnosticAbortsConversion ==
  (conv.called /\ parseDiagnosticsOf(conv.before) # <<>>) =>
    /\ conv.err = parseDiagnosticsOf(conv.before)[1].messageText
    /\ conv.errIndex = parseDiagnosticsOf(conv.before)[1].start
    /\ conv.estree = NullT
    /\ conv.returned = {}
    /\ conv.writes = <<>>
    /\ conv.tsNodeToESTreeNodeMap = {}
    /\ conv.esTreeNodeToTSNodeMap = {}
    /\ ~conv.astMaps
    /\ conv.ast = conv.before

(* A tree with two different diagnostics was given, and the error is the   *)
(* first of them                                                           *)
C12_Witness ==
  /\ conv.called
  /\ Len(parseDiagnosticsOf(conv.before)) = 2
  /\ parseDiagnosticsOf(conv.before)[1] # parseDiagnosticsOf(conv.before)[2]
  /\ conv.err = "Unterminated string literal."
  /\ conv.returned = {}

(* C13: in service mode the resolved programs are examined in the order of *)
(* the project paths and the tree of the first program that has the file   *)
(* is converted; services.program is that program, and a later program     *)
(* that also has the file is not used.                                     *)
C13_FirstProgramWithFile ==
  \A i \in 1..Len(calls) :
    (Returned(i) /\ ServiceMode(i)) =>
      LET project == calls[i].options.project
          filePath == calls[i].options.filePath
          programs == calls[i].programs
          hits == {j \in 1..Len(project) : filePath \in fileNames(project[j])}
      IN /\ Len(programs) = Len(project)
         /\ \A j \in 1..Len(project) : programs[j].configPath = project[j]
         /\ \A j \in hits :
              (\A k \in hits : j <= k) =>
                /\ calls[i].services.program = project[j]
                /\ calls[i].source = programs[j].sourceFiles[filePath].ast

(* Two programs have the file with different trees, and the first is used *)
C13_Witness ==
  /\ Len(calls) = 2
  /\ Returned(2)
  /\ calls[2].options.project = <<"tsconfig.b.json", "tsconfig.json">>
  /\ calls[2].options.filePath = ProjectFile
  /\ calls[2].programs[1].sourceFiles[ProjectFile]
       # calls[2].programs[2].sourceFiles[ProjectFile]
  /\ calls[2].services.program = "tsconfig.b.json"
  /\ calls[2].source = calls[2].programs[1].sourceFiles[ProjectFile].ast

(* C14: if a named configuration path cannot be read (a missing file, a    *)
(* directory, malformed contents), the resolver throws and parse fails     *)
(* with that error: the path is not skipped and no result is returned.     *)
UnreadablePaths == {"missing.json", ".", "badTSConfig/tsconfig.json"}

ResolverErrors(path) ==
  {"Could not read provided tsconfig.json: " \o path,
   "Parsing " \o path \o " resulted in errors."}

Flags ==
  {"range", "loc", "tokens", "comment", "jsx", "useJSXTextNode",
   "errorOnUnknownASTType"}

DefaultContext ==
  [tokens |-> "null", range |-> "false", loc |-> "false",
   comment |-> "false", jsx |-> "undefined",
   errorOnUnknownASTType |-> "undefined", useJSXTextNode |-> "false",
   log |-> "console.log", project |-> <<>>]

(* The option was not passed to the call *)
Omitted(options, f) ==
  \/ ~options.given
  \/ options[f] = "undefined"
  \/ f = "jsx" /\ options.ecmaFeatures # "object"

(* C15: the context is rebuilt from the defaults at the start of every     *)
(* parse call: whatever the calls before, an option that a call omits has  *)
(* its default in the context of that call, and two calls with the same    *)
(* options have the same effective options.                                *)
C15_ContextRebuiltEveryCall ==
  \A i \in 1..Len(calls) :
    /\ \A f \in Flags :
         Omitted(calls[i].options, f) => calls[i].extra[f] = DefaultContext[f]
    /\ Omitted(calls[i].options, "loggerFn")
         => calls[i].extra.log = DefaultContext.log
    /\ calls[i].extra.project = calls[i].options.project
    /\ \A j \in 1..Len(calls) :
         calls[i].options = calls[j].options => calls[i].extra = calls[j].extra
    /\ i = Len(calls) => extra = calls[i].extra

(* A call that sets every flag, the log sink excepted, is followed by a    *)
(* call without options, whose context is the default one                  *)
C15_Witness ==
  /\ Len(calls) = 2
  /\ calls[1].options = FlagOptions("true", "null")
  /\ calls[1].extra.range = "true"
  /\ calls[1].extra.tokens = "[]"
  /\ ~calls[2].options.given
  /\ calls[2].extra = DefaultContext
  /\ extra = DefaultContext

(* The flag is on in the context *)
FlagOn(context, f) ==
  IF f = "tokens" THEN context[f] = "[]" ELSE Truthy(context[f])

(* C16: each of the flags range, loc, tokens, comment, jsx,                *)
(* useJSXTextNode and errorOnUnknownASTType is on in the context of a call *)
(* exactly when the option was passed as the boolean true; 1 and 'true'    *)
(* leave it off.                                                           *)
C16_FlagOnIffBooleanTrue ==
  \A i \in 1..Len(calls) :
    \A f \in Flags :
      FlagOn(calls[i].extra, f)
        <=> (~Omitted(calls[i].options, f) /\ calls[i].options[f] = "true")

(* C17: a false-y loggerFn (false, null, 0, the empty string) silences the *)
(* warning, a function as loggerFn is the sink of it; in neither case is   *)
(* the default sink called.                                                *)
FalsyValues == {"false", "null", "0", ""}

C17_FalsyLoggerSilences ==
  \A k \in 1..Len(logCalls) :
    LET loggerFn == calls[logCalls[k].call].options.loggerFn
    IN /\ loggerFn \in FalsyValues => logCalls[k].sink = "Function.prototype"
       /\ loggerFn \in Functions => logCalls[k].sink = loggerFn

(* The classes of a tree and the types of the extends clause of a class *)
ClassPaths(ast) ==
  {p \in PathsOf(ast, <<>>) :
     At(ast, p).kind \in {"ClassDeclaration", "ClassExpression"}}

ExtendsTypes(class) ==
  LET clauses == {i \in 2..Len(class.kids) :
                    /\ class.kids[i].kind = "HeritageClause"
                    /\ class.kids[i].text = "extends"}
  IN IF clauses = {}
       THEN <<>>
       ELSE class.kids[CHOOSE i \in clauses : \A j \in clauses : i <= j].kids

(* C18: a class whose extends clause lists more than one type makes the    *)
(* conversion throw "Classes can only extend a single class." at the       *)
(* second type, and no node is returned for the class; a class with no or  *)
(* one extends target never raises this error.                             *)
C18_SingleSuperClass ==
  conv.called =>
    /\ \A p \in ClassPaths(conv.before) :
         Len(ExtendsTypes(At(conv.before, p))) > 1 =>
           /\ conv.err = "Classes can only extend a single class."
           /\ conv.errIndex = ExtendsTypes(At(conv.before, p))[2].pos
           /\ conv.estree = NullT
           /\ \A e \in conv.returned : e[1] # p
    /\ (\A p \in ClassPaths(conv.before) :
          Len(ExtendsTypes(At(conv.before, p))) <= 1)
         => conv.err # "Classes can only extend a single class."

(* A class that extends two types and implements one was given *)
C18_Witness ==
  /\ conv.called
  /\ \E p \in ClassPaths(conv.before) :
       /\ Len(ExtendsTypes(At(conv.before, p))) = 2
       /\ Len(At(conv.before, p).kids) = 3
       /\ conv.errIndex = ExtendsTypes(At(conv.before, p))[2].pos
       /\ conv.errIndex > ExtendsTypes(At(conv.before, p))[1].pos
  /\ conv.err = "Classes can only extend a single class."
  /\ conv.returned = {}

(* C19: during one conversion each entry of the two maps is written once:  *)
(* no native node is set twice in tsNodeToESTreeNodeMap and no target node *)
(* is set twice in esTreeNodeToTSNodeMap, an entry is written only for a   *)
(* node that the rule of the native node returned, and nothing is written  *)
(* when the service maps were not requested.                               *)
C19_EntriesWrittenOnce ==
  conv.called =>
    /\ \A i, j \in 1..Len(conv.writes) :
         i # j => /\ conv.writes[i][1] # conv.writes[j][1]
                  /\ conv.writes[i][2] # conv.writes[j][2]
    /\ \A i \in 1..Len(conv.writes) : conv.writes[i] \in conv.returned
    /\ ~conv.shouldProvideParserServices =>
         /\ conv.writes = <<>>
         /\ conv.tsNodeToESTreeNodeMap = {}
         /\ conv.esTreeNodeToTSNodeMap = {}

(* The statements of a body before its first statement that is no string  *)
(* literal statement                                                       *)
LeadingRun(body) ==
  {j \in 1..Len(body) : \A i \in 1..j : IsStringStatement(body[i])}

(* C20: only the string literal statements of the leading run of a body    *)
(* are marked as directives: a string literal statement after a statement  *)
(* of another shape has no directive field, and a statement whose literal  *)
(* is the empty string is marked like the others of the leading run.       *)
C20_DirectivesInLeadingRunOnly ==
  (conv.called /\ conv.err = "") =>
    \A body \in DirectiveBodies(conv.estree) :
      \A j \in 1..Len(body) :
        /\ HasAttr(body[j], "directive") => j \in LeadingRun(body)
        /\ (/\ j \in LeadingRun(body)
            /\ \A i \in 1..(j - 1) : RawOf(body[i]) # RawOf(body[j]))
             => HasAttr(body[j], "directive")

(* The operands of a chain of comma operators in source order: an operand *)
(* that is a comma expression, in parentheses or not, stands for its own   *)
(* operands                                                                *)
RECURSIVE CommaOperands(_, _)
CommaOperands(ast, p) ==
  LET node == At(ast, p)
  IN IF node.kind = "BinaryExpression" /\ node.text = ","
       THEN CommaOperands(ast, Kid(p, 1)) \o CommaOperands(ast, Kid(p, 2))
       ELSE IF node.kind = "ParenthesizedExpression"
                 /\ CommaOperands(ast, Kid(p, 1)) # <<Kid(p, 1)>>
         THEN CommaOperands(ast, Kid(p, 1))
         ELSE <<p>>

(* The comma operators of the same chain *)
RECURSIVE CommaCount(_, _)
CommaCount(ast, p) ==
  LET node == At(ast, p)
  IN IF node.kind = "BinaryExpression" /\ node.text = ","
       THEN 1 + CommaCount(ast, Kid(p, 1)) + CommaCount(ast, Kid(p, 2))
       ELSE IF node.kind = "ParenthesizedExpression"
         THEN CommaCount(ast, Kid(p, 1))
         ELSE 0

CommaPaths(ast) ==
  {p \in PathsOf(ast, <<>>) :
     At(ast, p).kind = "BinaryExpression" /\ At(ast, p).text = ","}

(* C21: a comma expression converts to a SequenceExpression whose          *)
(* expressions are the elements of the left operand followed by those of   *)
(* the right operand in source order; the elements of an operand that is   *)
(* itself a sequence are spliced in, so that no element is a               *)
(* SequenceExpression, and n comma operators give n + 1 elements.          *)
C21_SequenceIsFlat ==
  (conv.called /\ conv.err = "") =>
    \A p \in CommaPaths(conv.before) :
      \A t \in {u \in NodesOf(conv.estree) : <<p, u.id>> \in conv.returned} :
        /\ t.type = "SequenceExpression"
        /\ LET expressions == FieldOf(t.sub, "expressions")
               operands == CommaOperands(conv.before, p)
           IN /\ Len(expressions) = Len(operands)
              /\ Len(expressions) = CommaCount(conv.before, p) + 1
              /\ \A k \in 1..Len(expressions) :
                   /\ expressions[k].type # "SequenceExpression"
                   /\ <<operands[k], expressions[k].id>> \in conv.returned

(* A chain of three comma operators gave four elements and a right operand *)
(* in parentheses was spliced in                                           *)
C21_Witness ==
  /\ conv.called /\ conv.err = ""
  /\ \E p \in CommaPaths(conv.before) :
       /\ CommaCount(conv.before, p) = 3
       /\ At(conv.before, Kid(p, 2)).kind = "ParenthesizedExpression"
       /\ \E t \in NodesOf(conv.estree) :
            /\ <<p, t.id>> \in conv.returned
            /\ Len(FieldOf(t.sub, "expressions")) = 4

SpreadPaths(ast) ==
  {p \in PathsOf(ast, <<>>) :
     At(ast, p).kind \in {"SpreadElement", "SpreadAssignment"}}

(* The node that contains the spread is the left operand of an assignment *)
IsLeftOfAssignment(ast, p) ==
  /\ Len(p) >= 2
  /\ At(ast, ParentOf(ParentOf(p))).kind = "BinaryExpression"
  /\ At(ast, ParentOf(ParentOf(p))).text \in AssignmentOperators
  /\ Kid(ParentOf(ParentOf(p)), 1) = ParentOf(p)

(* C22: a spread element or spread assignment converts to RestElement iff  *)
(* the literal that contains it is the left operand of an enclosing        *)
(* assignment, and to SpreadElement when the literal is the right operand  *)
(* or there is no enclosing assignment, an enclosing binary expression     *)
(* that is no assignment included.                                         *)
C22_RestIffLeftOfAssignment ==
  (conv.called /\ conv.err = "") =>
    \A p \in SpreadPaths(conv.before) :
      ConvertedTypes(p) = IF IsLeftOfAssignment(conv.before, p)
                            THEN {"RestElement"}
                            ELSE {"SpreadElement"}

ParameterPaths(ast) ==
  {p \in PathsOf(ast, <<>>) : At(ast, p).kind = "Parameter"}

(* The shape the priority order gives a parameter: rest, default value,    *)
(* parameter property, plain name                                          *)
ParameterShape(node) ==
  IF "dotDotDot" \in node.flags
    THEN "RestElement"
    ELSE IF Present(node.kids[Len(node.kids)])
      THEN "AssignmentPattern"
      ELSE IF node.flags \cap {"public", "readonly"} # {}
        THEN "TSParameterProperty"
        ELSE "name"

(* C23: a converted parameter is exactly one of a RestElement, an          *)
(* AssignmentPattern, a TSParameterProperty and the plain converted name,  *)
(* chosen in this order of priority, and no converted parameter combines   *)
(* two of them: a TSParameterProperty wraps neither an AssignmentPattern   *)
(* nor a RestElement.                                                      *)
C23_ParameterHasOneShape ==
  (conv.called /\ conv.err = "") =>
    \A p \in ParameterPaths(conv.before) :
      \A t \in {u \in NodesOf(conv.estree) : <<p, u.id>> \in conv.returned} :
        LET node == At(conv.before, p)
        IN /\ IF ParameterShape(node) = "name"
                THEN <<Kid(p, Len(node.kids) - 2), t.id>> \in conv.returned
                ELSE t.type = ParameterShape(node)
           /\ t.type = "TSParameterProperty" =>
                Field(t, "parameter").type
                  \notin {"AssignmentPattern", "RestElement"}

(* The native nodes that carry a type-argument list *)
TypeArgumentPaths(ast) ==
  {p \in PathsOf(ast, <<>>) :
     /\ At(ast, p).kind \in {"TypeReference", "ExpressionWithTypeArguments"}
     /\ hasTypeArguments(At(ast, p))}

(* The TSTypeParameterInstantiation nodes built from the list of the node *)
(* at p: the typeParameters of a type reference, the superTypeParameters  *)
(* of the class that extends the type                                     *)
InstantiationsOf(p) ==
  LET field == IF At(conv.before, p).kind = "TypeReference"
                 THEN "typeParameters" ELSE "superTypeParameters"
      owner == IF At(conv.before, p).kind = "TypeReference"
                 THEN p ELSE ParentOf(ParentOf(p))
  IN {Field(t, field) :
        t \in {u \in NodesOf(conv.estree) :
                 /\ <<owner, u.id>> \in conv.returned
                 /\ FieldOf(u.sub, field) # <<>>
                 /\ IsNode(Field(u, field))}}

(* The node built from the list of the node at p starts one position      *)
(* before the list, ends where the closing angle bracket ends, and its    *)
(* params are the converted arguments in order                            *)
InstantiationSpansList(p) ==
  LET node == At(conv.before, p)
      list == typeArgumentsOf(node)
  IN \A t \in InstantiationsOf(p) :
       /\ t.type = "TSTypeParameterInstantiation"
       /\ t.range = <<list.pos - 1, node.end>>
       /\ Len(FieldOf(t.sub, "params")) = list.length
       /\ \A k \in 1..list.length :
            <<Kid(p, k + 1), FieldOf(t.sub, "params")[k].id>> \in conv.returned

(* C24: the TSTypeParameterInstantiation node built from a type-argument  *)
(* list ends at the end of the closing angle bracket both when the list   *)
(* is empty and when the parent of the list is a call expression or a     *)
(* type reference; it starts one position before the list and its params  *)
(* are the converted arguments in order.                                  *)
C24_InstantiationEndsAtGreaterThan ==
  (conv.called /\ conv.err = "") =>
    \A p \in TypeArgumentPaths(conv.before) :
      (\/ typeArgumentsOf(At(conv.before, p)).length = 0
       \/ At(conv.before, p).kind \in {"CallExpression", "TypeReference"})
        => InstantiationSpansList(p)

(* The same for the lists the closing angle bracket is looked for: those  *)
(* with an element whose parent is a type reference                       *)
C24_ScannedListEndsAtGreaterThan ==
  (conv.called /\ conv.err = "") =>
    \A p \in TypeArgumentPaths(conv.before) :
      scansForGreaterThan(typeArgumentsOf(At(conv.before, p)),
                          At(conv.before, p))
        => InstantiationSpansList(p)

(* A list with an element and a space before the closing angle bracket   *)
(* was converted on a type reference                                      *)
C24_ScannedWitness ==
  /\ conv.called /\ conv.err = ""
  /\ \E p \in TypeArgumentPaths(conv.before) :
       /\ At(conv.before, p).kind = "TypeReference"
       /\ "space" \in At(conv.before, p).flags
       /\ typeArgumentsOf(At(conv.before, p)).length = 2
       /\ InstantiationsOf(p) # {}

(* C25: every callback registered for a file is kept: the callback of   *)
(* every watcher that is not closed is in the tracking map, two watches   *)
(* of one file included, so that closing a watcher removes the callback   *)
(* of that watcher only; and the change notification of a call reaches    *)
(* the watch of every known project that watches the file being linted.   *)
C25_EveryCallbackKept ==
  /\ \A w \in fileWatchers :
       [fileName |-> w.fileName, callback |-> w.watch]
         \in watchCallbackTrackingMap
  /\ \A i \in 1..Len(lints) :
       \A w \in lints[i].watchers :
         (w.fileName = lints[i].filePath /\ w.watch \in lints[i].known)
           => w.watch \in lints[i].notified

(* C26: in service mode, the tree converted by a parse call on a file of *)
(* the project is the tree of the source text passed to that call, also  *)
(* when an earlier call on the same file and the same tsconfig was       *)
(* passed another text and left its program in the cache.                *)
C26_ConvertsPassedText ==
  \A i \in 1..Len(calls) :
    (/\ Returned(i) /\ ServiceMode(i)
     /\ firstDefined(calls[i].programs, calls[i].options.filePath) > 0)
      => calls[i].source = createSourceFile(calls[i].code).ast

(* No watcher of a known watch program was closed *)
NoWatcherClosed ==
  \A e \in knownWatchProgramMap :
    \A f \in fileNames(e.path) :
      [fileName |-> f, watch |-> e.path] \in fileWatchers

(* The same for the resolver that keeps watch programs: the program a    *)
(* call takes the tree from holds the text passed to that call           *)
C26_WatchHoldsPassedText ==
  \A i \in 1..Len(lints) :
    (/\ lints[i].error = ""
     /\ NoWatcherClosed
     /\ firstDefined(lints[i].results, lints[i].filePath) > 0)
      => lints[i].results[firstDefined(lints[i].results, lints[i].filePath)]
           .sourceFiles[lints[i].filePath]
           = createSourceFile(lints[i].code)

(* While one project only is resolved and no watcher is closed, the      *)
(* watch program of a later call holds the text of that call             *)
C26_SingleWatchHoldsPassedText ==
  \A i \in 1..Len(lints) :
    (/\ lints[i].error = ""
     /\ NoWatcherClosed
     /\ \A j \in 1..i : Len(lints[j].project) = 1
     /\ firstDefined(lints[i].results, lints[i].filePath) > 0)
      => lints[i].results[firstDefined(lints[i].results, lints[i].filePath)]
           .sourceFiles[lints[i].filePath]
           = createSourceFile(lints[i].code)

(* The calls in service mode whose project paths were resolved to        *)
(* programs none of which has the file                                   *)
FileOutsideProject(i) ==
  /\ ServiceMode(i)
  /\ calls[i].programs # <<>>
  /\ firstDefined(calls[i].programs, calls[i].options.filePath) = 0

FailingPath(project) ==
  LET bad == {j \in 1..Len(project) : project[j] \in UnreadablePaths}
  IN IF bad = {} THEN 0 ELSE CHOOSE j \in bad : \A k \in bad : j <= k

EntriesOf(cache, tsconfigPath) == {e \in cache : e.path = tsconfigPath}

(* A parse call whose project paths fail at path k leaves in the cache   *)
(* an entry for every path before k, the entries it found there being    *)
(* the ones it leaves, and changes no entry of path k or of a later path *)
FailedResolutionKeepsEarlierEntries ==
  LET project == calls'[Len(calls')].options.project
      k == FailingPath(project)
  IN (Len(calls') = Len(calls) + 1 /\ k > 0) =>
       /\ \A j \in 1..(k - 1) :
            /\ CacheHas(programCache', project[j])
            /\ CacheHas(programCache, project[j]) =>
                 EntriesOf(programCache', project[j])
                   = EntriesOf(programCache, project[j])
       /\ \A j \in k..Len(project) :
            (\A m \in 1..(k - 1) : project[m] # project[j]) =>
              EntriesOf(programCache', project[j])
                = EntriesOf(programCache, project[j])

(* A later call with the paths of a call that failed fails with the      *)
(* error of that call                                                    *)
FailsAgainAtSamePath ==
  \A i \in 1..Len(calls) : \A j \in i..Len(calls) :
    (/\ FailingPath(calls[i].options.project) > 0
     /\ calls[j].options.project = calls[i].options.project)
      => /\ calls[j].error = calls[i].error
         /\ calls[i].error
              \in ResolverErrors(
                    calls[i].options.project[
                      FailingPath(calls[i].options.project)])

(* C28: when resolving the project paths of a call fails at path k, the  *)
(* program cache keeps the entries of the paths before k, holds no new   *)
(* entry for path k and none for the paths after k; a later call with    *)
(* the same paths reuses the entries and fails again at path k.          *)
C28_FailureKeepsEarlierEntries ==
  /\ []FailsAgainAtSamePath
  /\ [][FailedResolutionKeepsEarlierEntries]_vars

(* Two calls failed at the second of three paths: the first call made    *)
(* the entry of the first path, the second found it, and no entry was    *)
(* made for the second and the third path                                *)
C28_Witness ==
  /\ Len(calls) = 2
  /\ calls[1].options.project = calls[2].options.project
  /\ Len(calls[1].options.project) = 3
  /\ FailingPath(calls[1].options.project) = 2
  /\ calls[2].error # ""
  /\ {e.path : e \in programCache} = {calls[1].options.project[1]}

(* The same for the resolver that keeps watch programs: the watches of  *)
(* the paths before k are known after the call, no watch is stored for   *)
(* path k or a later path, and a later call with the same paths fails    *)
(* with the same error                                                   *)
FailedResolutionKeepsEarlierWatches ==
  LET project == lints'[Len(lints')].project
      k == FailingPath(project)
  IN (Len(lints') = Len(lints) + 1 /\ k > 0) =>
       /\ \A j \in 1..(k - 1) : WatchHas(knownWatchProgramMap', project[j])
       /\ \A j \in k..Len(project) :
            (\A m \in 1..(k - 1) : project[m] # project[j]) =>
              WatchHas(knownWatchProgramMap', project[j])
                = WatchHas(knownWatchProgramMap, project[j])

C28_WatchFailureKeepsEarlierWatches ==
  /\ [](\A i \in 1..Len(lints) : \A j \in i..Len(lints) :
          (FailingPath(lints[i].project) > 0
             /\ lints[j].project = lints[i].project)
            => lints[j].error = lints[i].error /\ lints[i].error # "")
  /\ [][FailedResolutionKeepsEarlierWatches]_vars

(* C29: once a parse call has run with an unsupported TypeScript version *)
(* the warned flag is set, also when the sink of that call was silenced  *)
(* with loggerFn false; the sink of no later call is called with the     *)
(* warning; and every call whose project paths can be resolved converts  *)
(* and returns a result, whether or not it emitted the warning.          *)
C29_WarnedAfterFirstCall ==
  /\ (~isRunningSupportedTypeScriptVersion /\ Len(calls) > 0)
       => warnedAboutTSVersion
  /\ \A k \in 1..Len(logCalls) : logCalls[k].call = 1
  /\ \A i \in 1..Len(calls) :
       FailingPath(calls[i].options.project) = 0 =>
         /\ Returned(i)
         /\ calls[i].source # NoNode
         /\ IsNode(calls[i].ast)

(* The first call was made with loggerFn false, the second with a        *)
(* function: the warning went to the silenced sink only and both calls   *)
(* returned                                                              *)
C29_Witness ==
  /\ ~isRunningSupportedTypeScriptVersion
  /\ Len(calls) = 2
  /\ calls[1].options.loggerFn = "false"
  /\ calls[2].options.loggerFn \in Functions
  /\ Len(logCalls) = 1
  /\ logCalls[1].sink = "Function.prototype"
  /\ Returned(1) /\ Returned(2)
  /\ warnedAboutTSVersion

(* Every call converts with the context made from its own options *)
ConvertsWithOwnOptions ==
  \A i \in 1..Len(calls) : calls[i].extra = applyOptions(calls[i].options)

(* C30: a parse call started from the log sink of a parse call that is  *)
(* still running does not disturb the outer call: every call converts   *)
(* with the context made from its own options and, when it takes no     *)
(* tree from a project, the tree of its own source text; and across the *)
(* calls the version warning is emitted once only.                      *)
C30_ReentrantCallLeavesOuterAlone ==
  /\ Len(logCalls) <= 1
  /\ ConvertsWithOwnOptions
  /\ \A i \in 1..Len(calls) :
       (Returned(i) /\ ~ServiceMode(i)) =>
         calls[i].source = createSourceFile(calls[i].code).ast

(* Every call converts the tree of its own source text when it is not   *)
(* in service mode, entered again or not                                *)
C30_OwnSourceText ==
  \A i \in 1..Len(calls) :
    (Returned(i) /\ ~ServiceMode(i)
       /\ Len(calls[i].extra.project) = 0) =>
      calls[i].source = createSourceFile(calls[i].code).ast

====
